---- MODULE Spec2Model ----
(***************************************************************************)
(* Lead lifecycle and delivery-event correlation engine of                 *)
(* generate_server.py: the lead store (load-all / save-all), the bulk      *)
(* Approved -> Queued step, the single-flight send worker, and the Brevo   *)
(* webhook correlator.                                                     *)
(*                                                                         *)
(* Timestamps are minutes on a logical UTC clock; NoTime is Python's None  *)
(* (a missing key), BadTime a string that datetime.fromisoformat rejects.  *)
(* Strings that the code normalises (message ids, emails, event kinds)     *)
(* keep their raw form and are normalised by operators, as in the code.    *)
(* The store is the file-backed one (MONGODB_URI unset): a list of lead    *)
(* records read and replaced as a whole.                                   *)
(***************************************************************************)
EXTENDS Integers, Sequences, FiniteSets, TLC

\* ------------------------------------------------------------ bounds
MaxThreads  == 2   \* worker threads that may be alive at the same time
MaxRequests == 1   \* request handlers in flight at the same time
MaxSends    == 2   \* mail-dispatch submissions in one behaviour
MaxTicks    == 1   \* clock advances in one behaviour
MaxCalls    == 3   \* requests served in one behaviour
MaxLeads    == 2   \* leads of a store the correlator is tried on

\* ------------------------------------------------------------ program constants
WINDOW_MINUTES == 10     \* datetime.timedelta(minutes=10)
TickMinutes    == 15     \* one clock advance of the model, in minutes

NoTime  == 0 - 1
BadTime == 0 - 2

Threads  == 1..MaxThreads
Requests == 1..MaxRequests

Statuses == {"Drafted", "Approved", "Queued", "Sent"}

\* ------------------------------------------------------------ strings
\* str.lower() on the strings of the model.
lower(s) ==
    CASE s = "A@X.COM"  -> "a@x.com"
      [] s = "Opened"   -> "opened"
      [] s = "Drafted"  -> "drafted"
      [] s = "Approved" -> "approved"
      [] s = "Queued"   -> "queued"
      [] s = "Sent"     -> "sent"
      [] OTHER          -> s

\* A message id is a sequence of characters; "m1", "m2", ... and "f" stand
\* for the opaque body of an id.
RECURSIVE lstrip(_)
lstrip(text) ==
    IF text # <<>> /\ Head(text) = " " THEN lstrip(Tail(text)) ELSE text

RECURSIVE rstrip(_)
rstrip(text) ==
    IF text # <<>> /\ text[Len(text)] = " "
    THEN rstrip(SubSeq(text, 1, Len(text) - 1))
    ELSE text

strip(text) == rstrip(lstrip(text))

\* _normalize_message_id: strip, then drop one pair of outer angle brackets.
normalize_message_id(value) ==
    LET text == strip(value) IN
    IF text = <<>> THEN <<>>
    ELSE IF Head(text) = "<" /\ text[Len(text)] = ">"
         THEN strip(SubSeq(text, 2, Len(text) - 1))
         ELSE text

\* _parse_iso_timestamp: None for a missing or unparsable value.
parse_iso_timestamp(value) == IF value >= 0 THEN value ELSE NoTime

\* The message id the provider returns for the n-th submission.
Tok == <<"m1", "m2", "m3", "m4">>
ProviderId(n) == <<"<", Tok[n], ">">>

\* ------------------------------------------------------------ leads
\* A lead as build_payload creates it: status Drafted, no dispatch or
\* correlation key present.
NewLead(p, e) ==
    [place_id |-> p, email |-> e, status |-> "Drafted",
     queued_at |-> NoTime, sent_at |-> NoTime,
     brevo_message_id |-> <<>>,
     email_opened |-> "absent", email_opened_at |-> NoTime,
     email_open_state |-> "absent", email_open_checked_at |-> NoTime,
     last_brevo_event |-> "", last_brevo_event_at |-> NoTime]

\* Mutant: the worker sets the status and forgets lead['sent_at'].
MarkSent_no_stamp(lead, now, message_id) ==
    [lead EXCEPT !.status = "Sent",
                 !.brevo_message_id = IF message_id # <<>> THEN message_id ELSE @,
                 !.email_opened = "false",
                 !.email_opened_at = NoTime,
                 !.email_open_checked_at = NoTime]

\* Mutant: the open state of an earlier send is not reset.
MarkSent_keeps_open(lead, now, message_id) ==
    [lead EXCEPT !.status = "Sent",
                 !.sent_at = now,
                 !.brevo_message_id = IF message_id # <<>> THEN message_id ELSE @]

\* The assignments of _process_send_queue after a successful dispatch.
MarkSent(lead, now, message_id) ==
    [lead EXCEPT !.status = "Sent",
                 !.sent_at = now,
                 !.brevo_message_id = IF message_id # <<>> THEN message_id ELSE @,
                 !.email_opened = "false",
                 !.email_opened_at = NoTime,
                 !.email_open_checked_at = NoTime]

\* ------------------------------------------------------------ bulk queue step
\* Mutant: the loop forgets lead['queued_at'].
RECURSIVE queue_approved_no_stamp(_, _)
queue_approved_no_stamp(leads, now) ==
    IF leads = <<>> THEN [leads |-> <<>>, queued |-> 0]
    ELSE LET lead == Head(leads)
             rest == queue_approved_no_stamp(Tail(leads), now)
         IN IF lower(lead.status) = "approved"
            THEN [leads  |-> <<[lead EXCEPT !.status = "Queued"]>> \o rest.leads,
                  queued |-> rest.queued + 1]
            ELSE [leads |-> <<lead>> \o rest.leads, queued |-> rest.queued]

\* Mutant: the loop also takes the leads that are already Queued.
RECURSIVE queue_approved_requeue(_, _)
queue_approved_requeue(leads, now) ==
    IF leads = <<>> THEN [leads |-> <<>>, queued |-> 0]
    ELSE LET lead == Head(leads)
             rest == queue_approved_requeue(Tail(leads), now)
         IN IF lower(lead.status) \in {"approved", "queued"}
            THEN [leads  |-> <<[lead EXCEPT !.status = "Queued", !.queued_at = now]>>
                             \o rest.leads,
                  queued |-> rest.queued + 1]
            ELSE [leads |-> <<lead>> \o rest.leads, queued |-> rest.queued]

\* Mutant: the loop without the status test.
RECURSIVE queue_approved_unconditional(_, _)
queue_approved_unconditional(leads, now) ==
    IF leads = <<>> THEN [leads |-> <<>>, queued |-> 0]
    ELSE LET lead == Head(leads)
             rest == queue_approved_unconditional(Tail(leads), now)
         IN [leads  |-> <<[lead EXCEPT !.status = "Queued", !.queued_at = now]>>
                           \o rest.leads,
             queued |-> rest.queued + 1]

\* The loop of _queue_approved_leads_for_sending over the loaded list.
RECURSIVE queue_approved(_, _)
queue_approved(leads, now) ==
    IF leads = <<>> THEN [leads |-> <<>>, queued |-> 0]
    ELSE LET lead == Head(leads)
             rest == queue_approved(Tail(leads), now)
         IN IF lower(lead.status) = "approved"
            THEN [leads  |-> <<[lead EXCEPT !.status = "Queued", !.queued_at = now]>>
                             \o rest.leads,
                  queued |-> rest.queued + 1]
            ELSE [leads |-> <<lead>> \o rest.leads, queued |-> rest.queued]

\* ------------------------------------------------------------ worker selection
\* Mutant: the selection without `and not lead.get('sent_at')`.
IsTarget_status_only(lead) == lower(lead.status) = "queued"

IsTarget(lead) == lower(lead.status) = "queued" /\ lead.sent_at = NoTime

\* Mutant: the targets in reverse order of the snapshot.
RECURSIVE TargetsFrom_reversed(_, _)
TargetsFrom_reversed(leads, i) ==
    IF i > Len(leads) THEN <<>>
    ELSE IF IsTarget(leads[i]) THEN TargetsFrom_reversed(leads, i + 1) \o <<i>>
         ELSE TargetsFrom_reversed(leads, i + 1)

\* targets = [lead for lead in leads if ...], as positions in the snapshot.
RECURSIVE TargetsFrom(_, _)
TargetsFrom(leads, i) ==
    IF i > Len(leads) THEN <<>>
    ELSE IF IsTarget(leads[i]) THEN <<i>> \o TargetsFrom(leads, i + 1)
         ELSE TargetsFrom(leads, i + 1)

Targets(leads) == TargetsFrom(leads, 1)

\* ------------------------------------------------------------ correlator indices
\* The key of a lead in an index: str(lead.get('email') or '').strip().lower()
\* (the emails of the model carry no surrounding white space).
email_key(value) == lower(value)

\* The sort key of _build_email_index: the parsed sent_at, or datetime.min.
SentKey(lead) == parse_iso_timestamp(lead.sent_at)

\* Mutant: the sort without reverse=True (oldest first).
RECURSIVE InsertAsc(_, _, _)
InsertAsc(sorted, i, leads) ==
    IF sorted = <<>> THEN <<i>>
    ELSE IF parse_iso_timestamp(leads[Head(sorted)].sent_at)
               <= parse_iso_timestamp(leads[i].sent_at)
         THEN <<Head(sorted)>> \o InsertAsc(Tail(sorted), i, leads)
         ELSE <<i>> \o sorted

\* list.sort(key=..., reverse=True) is stable: a lead goes after every lead
\* already placed whose key is greater or equal.
RECURSIVE InsertDesc(_, _, _)
InsertDesc(sorted, i, leads) ==
    IF sorted = <<>> THEN <<i>>
    ELSE IF SentKey(leads[Head(sorted)]) >= SentKey(leads[i])
         THEN <<Head(sorted)>> \o InsertDesc(Tail(sorted), i, leads)
         ELSE <<i>> \o sorted

RECURSIVE CandidatesFrom(_, _, _)
CandidatesFrom(leads, email, n) ==
    IF n = 0 THEN <<>>
    ELSE LET before == CandidatesFrom(leads, email, n - 1) IN
         IF email_key(leads[n].email) = email
         THEN InsertDesc(before, n, leads)
         ELSE before

\* _build_email_index: email -> positions of the leads with that email, most
\* recently sent first, leads without sent_at last.
build_email_index(leads) ==
    LET keys == {email_key(leads[i].email) : i \in 1..Len(leads)} \ {""} IN
    [e \in keys |-> CandidatesFrom(leads, e, Len(leads))]

\* msg_index of brevo_webhook: a dict comprehension, so of two leads with the
\* same normalised id the later one stays.
build_msg_index(leads) ==
    LET keys == {normalize_message_id(leads[i].brevo_message_id) : i \in 1..Len(leads)}
                \ {<<>>}
    IN [k \in keys |->
          CHOOSE i \in 1..Len(leads) :
             /\ normalize_message_id(leads[i].brevo_message_id) = k
             /\ \A j \in 1..Len(leads) :
                   normalize_message_id(leads[j].brevo_message_id) = k => j <= i]

\* ------------------------------------------------------------ matching
RECURSIVE FirstInWindow(_, _, _)
FirstInWindow(candidates, leads, event_at) ==
    IF candidates = <<>> THEN 0
    ELSE LET sent_at == parse_iso_timestamp(leads[Head(candidates)].sent_at) IN
         IF sent_at # NoTime /\ sent_at <= event_at + WINDOW_MINUTES
         THEN Head(candidates)
         ELSE FirstInWindow(Tail(candidates), leads, event_at)

\* Mutant: the email rule is tried before the message id.
find_lead_email_first(event, leads, msg_index, email_index) ==
    LET message_id == normalize_message_id(event.message_id)
        email      == email_key(event.email)
    IN
    IF email # "" /\ email \in DOMAIN email_index
    THEN LET candidates == email_index[email]
             event_at   == parse_iso_timestamp(event.date)
         IN IF event_at = NoTime THEN candidates[1]
            ELSE LET hit == FirstInWindow(candidates, leads, event_at) IN
                 IF hit # 0 THEN hit ELSE candidates[1]
    ELSE IF message_id # <<>> /\ message_id \in DOMAIN msg_index
         THEN msg_index[message_id]
         ELSE 0

\* Mutant: without the `return candidates[0]` fallbacks.
find_lead_in_window_only(event, leads, msg_index, email_index) ==
    LET message_id == normalize_message_id(event.message_id)
        email      == email_key(event.email)
    IN
    IF message_id # <<>> /\ message_id \in DOMAIN msg_index
    THEN msg_index[message_id]
    ELSE IF email = "" THEN 0
    ELSE IF email \notin DOMAIN email_index THEN 0
    ELSE LET event_at == parse_iso_timestamp(event.date) IN
         IF event_at = NoTime THEN 0
         ELSE FirstInWindow(email_index[email], leads, event_at)

\* _find_lead_for_brevo_event: the position of the matched lead, 0 for None.
find_lead_for_brevo_event(event, leads, msg_index, email_index) ==
    LET message_id == normalize_message_id(event.message_id)
        email      == email_key(event.email)
    IN
    IF message_id # <<>> /\ message_id \in DOMAIN msg_index
    THEN msg_index[message_id]
    ELSE IF email = "" THEN 0
    ELSE IF email \notin DOMAIN email_index THEN 0
    ELSE LET candidates == email_index[email]
             event_at   == parse_iso_timestamp(event.date)
         IN IF event_at = NoTime THEN candidates[1]
            ELSE LET hit == FirstInWindow(candidates, leads, event_at) IN
                 IF hit # 0 THEN hit ELSE candidates[1]

\* ------------------------------------------------------------ merge
FailureKinds  == {"hard_bounce", "soft_bounce", "invalid", "blocked", "spam"}
DeliveryKinds == {"delivered", "request", "sent"}

\* Mutant: a failure event also clears the open flag and its timestamp.
apply_brevo_event_failure_clears(lead, event, now) ==
    LET event_type == lower(event.event)
        event_at   == IF event.date # NoTime THEN event.date ELSE now
        message_id == normalize_message_id(event.message_id)
        l1 == IF message_id # <<>> /\ lead.brevo_message_id # message_id
              THEN [lead EXCEPT !.brevo_message_id = message_id] ELSE lead
        l2 == [l1 EXCEPT !.email_open_checked_at = now]
        l3 == IF event_type = "opened"
              THEN [l2 EXCEPT !.email_opened = "true",
                              !.email_opened_at = event_at,
                              !.email_open_state = "opened"]
              ELSE IF event_type \in DeliveryKinds
              THEN [l2 EXCEPT !.email_opened =
                                 IF @ = "absent" THEN "false" ELSE @,
                              !.email_open_state =
                                 IF @ \notin {"unopened", "opened"} THEN "unopened" ELSE @]
              ELSE IF event_type \in FailureKinds
              THEN [l2 EXCEPT !.email_opened = "false",
                              !.email_opened_at = NoTime,
                              !.email_open_state = "failed"]
              ELSE l2
    IN IF event_type = "" THEN lead
       ELSE [l3 EXCEPT !.last_brevo_event = event_type,
                       !.last_brevo_event_at = event_at]

\* Mutant: a delivery event writes email_opened = False without the
\* `'email_opened' not in lead` test.
apply_brevo_event_resets_open(lead, event, now) ==
    LET event_type == lower(event.event)
        event_at   == IF event.date # NoTime THEN event.date ELSE now
        l2 == [lead EXCEPT !.email_open_checked_at = now]
        l3 == IF event_type = "opened"
              THEN [l2 EXCEPT !.email_opened = "true",
                              !.email_opened_at = event_at,
                              !.email_open_state = "opened"]
              ELSE IF event_type \in DeliveryKinds
              THEN [l2 EXCEPT !.email_opened = "false",
                              !.email_open_state = "unopened"]
              ELSE IF event_type \in FailureKinds
              THEN [l2 EXCEPT !.email_open_state = "failed"]
              ELSE l2
    IN IF event_type = "" THEN lead
       ELSE [l3 EXCEPT !.last_brevo_event = event_type,
                       !.last_brevo_event_at = event_at]

\* _apply_brevo_event_to_lead: the lead after the event (the code's `changed`
\* is whether any assignment was made, which is whether the lead differs).
apply_brevo_event_to_lead(lead, event, now) ==
    LET event_type == lower(event.event)
        event_at   == IF event.date # NoTime THEN event.date ELSE now
        message_id == normalize_message_id(event.message_id)
        l1 == IF message_id # <<>> /\ lead.brevo_message_id # message_id
              THEN [lead EXCEPT !.brevo_message_id = message_id] ELSE lead
        l2 == [l1 EXCEPT !.email_open_checked_at = now]
        l3 == IF event_type = "opened"
              THEN [l2 EXCEPT !.email_opened = "true",
                              !.email_opened_at = event_at,
                              !.email_open_state = "opened"]
              ELSE IF event_type \in DeliveryKinds
              THEN [l2 EXCEPT !.email_opened =
                                 IF @ = "absent" THEN "false" ELSE @,
                              !.email_open_state =
                                 IF @ \notin {"unopened", "opened"} THEN "unopened" ELSE @]
              ELSE IF event_type \in FailureKinds
              THEN [l2 EXCEPT !.email_open_state = "failed"]
              ELSE l2
    IN IF event_type = "" THEN lead
       ELSE [l3 EXCEPT !.last_brevo_event = event_type,
                       !.last_brevo_event_at = event_at]

\* The loop of brevo_webhook over the events of one payload. acc carries the
\* snapshot, the message-id index (updated after a change) and the counters.
RECURSIVE MergeEvents(_, _, _, _)
MergeEvents(events, acc, email_index, now) ==
    IF events = <<>> THEN acc
    ELSE LET event == Head(events)
             hit   == find_lead_for_brevo_event(event, acc.leads, acc.msg_index, email_index)
         IN IF hit = 0 THEN MergeEvents(Tail(events), acc, email_index, now)
            ELSE LET old  == acc.leads[hit]
                     new  == apply_brevo_event_to_lead(old, event, now)
                     nid  == normalize_message_id(new.brevo_message_id)
                     idx  == IF new # old /\ nid # <<>>
                             THEN [k \in DOMAIN acc.msg_index \cup {nid} |->
                                      IF k = nid THEN hit ELSE acc.msg_index[k]]
                             ELSE acc.msg_index
                 IN MergeEvents(Tail(events),
                                [leads     |-> [acc.leads EXCEPT ![hit] = new],
                                 msg_index |-> idx,
                                 matched   |-> acc.matched + 1,
                                 changed   |-> acc.changed \/ new # old],
                                email_index, now)

\* brevo_webhook from load_leads() to the decision to save.
webhook_merge(leads, events, now) ==
    MergeEvents(events,
                [leads |-> leads, msg_index |-> build_msg_index(leads),
                 matched |-> 0, changed |-> FALSE],
                build_email_index(leads), now)

\* ------------------------------------------------------------ state
VARIABLES
    store,        \* the persisted collection: what load_leads() returns
    now,          \* datetime.utcnow(), in minutes
    SEND_THREAD,  \* the global worker reference: a thread, or 0 for None
    pc,           \* per worker thread: its position in _process_send_queue
    wleads,       \* per worker thread: `leads`, the snapshot it loaded
    wtargets,     \* per worker thread: the targets of this pass not yet handled
    wresult,      \* per worker thread: the messageId of the last send_result
    sends,        \* mail-dispatch submissions so far
    delivered,    \* the place ids of the leads the provider accepted a message for
    calls,        \* requests accepted so far
    rpc,          \* per request handler: its position
    rleads,       \* per request handler: `leads`, the snapshot it loaded
    rarg,         \* per request handler: the events of the webhook payload
    rqueued,      \* per request handler: `queued`, the count of the bulk step
    rpoll,        \* per request handler: the locals of _refresh_open_statuses
    resp          \* the last response a handler produced

vars == <<store, now, SEND_THREAD, pc, wleads, wtargets, wresult, sends,
          delivered, calls, rpc, rleads, rarg, rqueued, rpoll, resp>>

workerVars  == <<SEND_THREAD, pc, wleads, wtargets, wresult>>
requestVars == <<calls, rpc, rleads, rarg, rqueued, rpoll, resp>>

PlaceIds == {"p1", "p2", "p3"}

NoResponse == [op |-> "none", code |-> 0, queued |-> 0, started |-> "none",
               received |-> 0, matched |-> 0, statuses |-> <<>>]

\* The payload of get_open_status and the locals of _refresh_open_statuses,
\* before the request has loaded.
NoPoll == [body |-> [kind |-> "omitted", ids |-> <<>>],
           all |-> FALSE, place_ids |-> {}, now_iso |-> NoTime, i |-> 0,
           changed |-> FALSE, updates |-> <<>>]

\* threading.Thread.is_alive(): from start() until the thread function and
\* its finally block have returned.
is_alive(t) == pc[t] # "idle"

\* Inside the `while True` loop of _process_send_queue.
InLoop(t) == pc[t] \in {"load", "pass", "sent", "sleep"}

\* Mutant: the liveness test inverted.
worker_active_inverted == SEND_THREAD # 0 /\ ~is_alive(SEND_THREAD)

\* `SEND_THREAD and SEND_THREAD.is_alive()`
worker_active == SEND_THREAD # 0 /\ is_alive(SEND_THREAD)

\* ------------------------------------------------------------ the clock
Tick ==
    /\ now < MaxTicks * TickMinutes
    /\ now' = now + TickMinutes
    /\ UNCHANGED <<store, sends, delivered>>
    /\ UNCHANGED workerVars
    /\ UNCHANGED requestVars

\* ------------------------------------------------------------ the worker
\* leads = load_leads(); targets = [...]; if not targets: break
WLoad(t) ==
    /\ pc[t] = "load"
    /\ IF Targets(store) = <<>>
       THEN /\ pc' = [pc EXCEPT ![t] = "finally"]
            /\ wleads' = [wleads EXCEPT ![t] = <<>>]
            /\ wtargets' = [wtargets EXCEPT ![t] = <<>>]
       ELSE /\ pc' = [pc EXCEPT ![t] = "pass"]
            /\ wleads' = [wleads EXCEPT ![t] = store]
            /\ wtargets' = [wtargets EXCEPT ![t] = Targets(store)]
    /\ UNCHANGED <<store, now, SEND_THREAD, wresult, sends, delivered>>
    /\ UNCHANGED requestVars

\* load_leads() raises (the file cannot be read, the database is down): the
\* error is outside the per-lead handler and ends the thread function
\* through its finally block.
WLoadFail(t) ==
    /\ pc[t] = "load"
    /\ pc' = [pc EXCEPT ![t] = "finally"]
    /\ wleads' = [wleads EXCEPT ![t] = <<>>]
    /\ wtargets' = [wtargets EXCEPT ![t] = <<>>]
    /\ UNCHANGED <<store, now, SEND_THREAD, wresult, sends, delivered>>
    /\ UNCHANGED requestVars

\* After the body of the for loop: the next target, or the next pass.
AfterTarget(rest) == IF rest = <<>> THEN "load" ELSE "pass"

\* if not email_address: continue  (the sleep of this iteration is skipped)
WSkip(t) ==
    /\ pc[t] = "pass"
    /\ wleads[t][Head(wtargets[t])].email = ""
    /\ wtargets' = [wtargets EXCEPT ![t] = Tail(@)]
    /\ pc' = [pc EXCEPT ![t] = AfterTarget(Tail(wtargets[t]))]
    /\ UNCHANGED <<store, now, SEND_THREAD, wleads, wresult, sends, delivered>>
    /\ UNCHANGED requestVars

\* Mutant: the try/except is around the for loop, so a failed dispatch ends
\* the pass and the worker.
WSubmit_failure_ends_worker(t, outcome) ==
    /\ pc[t] = "pass"
    /\ wleads[t][Head(wtargets[t])].email # ""
    /\ sends < MaxSends
    /\ sends' = sends + 1
    /\ IF outcome = "fail"
       THEN /\ pc' = [pc EXCEPT ![t] = "finally"]
            /\ UNCHANGED <<wresult, delivered>>
       ELSE /\ pc' = [pc EXCEPT ![t] = "sent"]
            /\ wresult' = [wresult EXCEPT ![t] =
                              IF outcome = "id" THEN ProviderId(sends + 1) ELSE <<>>]
            /\ delivered' = delivered \cup {wleads[t][Head(wtargets[t])].place_id}
    /\ UNCHANGED <<store, now, SEND_THREAD, wleads, wtargets>>
    /\ UNCHANGED requestVars

\* send_result = _dispatch_brevo_email(lead): the provider accepts the message
\* and returns a fresh messageId ("id"), accepts it and returns none ("noid"),
\* or the call raises ("fail"), which the per-lead handler catches.
WSubmit(t, outcome) ==
    /\ pc[t] = "pass"
    /\ wleads[t][Head(wtargets[t])].email # ""
    /\ sends < MaxSends
    /\ sends' = sends + 1
    /\ IF outcome = "fail"
       THEN /\ pc' = [pc EXCEPT ![t] = "sleep"]
            /\ UNCHANGED <<wresult, delivered>>
       ELSE /\ pc' = [pc EXCEPT ![t] = "sent"]
            /\ wresult' = [wresult EXCEPT ![t] =
                              IF outcome = "id" THEN ProviderId(sends + 1) ELSE <<>>]
            /\ delivered' = delivered \cup {wleads[t][Head(wtargets[t])].place_id}
    /\ UNCHANGED <<store, now, SEND_THREAD, wleads, wtargets>>
    /\ UNCHANGED requestVars

\* Mutant: the lead is marked in memory and save_leads(leads) is left to the
\* end of the pass.
WMark_unsaved(t) ==
    /\ pc[t] = "sent"
    /\ LET i == Head(wtargets[t])
           marked == [wleads[t] EXCEPT ![i] = MarkSent(@, now, wresult[t])]
       IN /\ wleads' = [wleads EXCEPT ![t] = marked]
          /\ store' = IF Tail(wtargets[t]) = <<>> THEN marked ELSE store
    /\ wresult' = [wresult EXCEPT ![t] = <<>>]
    /\ pc' = [pc EXCEPT ![t] = "sleep"]
    /\ UNCHANGED <<now, SEND_THREAD, wtargets, sends, delivered>>
    /\ UNCHANGED requestVars

\* lead['status'] = 'Sent' ... save_leads(leads)
WMark(t) ==
    /\ pc[t] = "sent"
    /\ LET i == Head(wtargets[t])
           marked == [wleads[t] EXCEPT ![i] = MarkSent(@, now, wresult[t])]
       IN /\ wleads' = [wleads EXCEPT ![t] = marked]
          /\ store' = marked
    /\ wresult' = [wresult EXCEPT ![t] = <<>>]
    /\ pc' = [pc EXCEPT ![t] = "sleep"]
    /\ UNCHANGED <<now, SEND_THREAD, wtargets, sends, delivered>>
    /\ UNCHANGED requestVars

\* time.sleep(SEND_SLEEP_SECONDS)
WSleep(t) ==
    /\ pc[t] = "sleep"
    /\ wtargets' = [wtargets EXCEPT ![t] = Tail(@)]
    /\ pc' = [pc EXCEPT ![t] = AfterTarget(Tail(wtargets[t]))]
    /\ UNCHANGED <<store, now, SEND_THREAD, wleads, wresult, sends, delivered>>
    /\ UNCHANGED requestVars

\* Mutant: the flag is cleared at the `break` only, not in a finally block.
WFinally_after_break_only(t) ==
    /\ pc[t] = "finally"
    /\ SEND_THREAD' = IF Targets(store) = <<>> THEN 0 ELSE SEND_THREAD
    /\ pc' = [pc EXCEPT ![t] = "exit"]
    /\ UNCHANGED <<store, now, wleads, wtargets, wresult, sends, delivered>>
    /\ UNCHANGED requestVars

\* finally: with SEND_THREAD_LOCK: SEND_THREAD = None
WFinally(t) ==
    /\ pc[t] = "finally"
    /\ SEND_THREAD' = 0
    /\ pc' = [pc EXCEPT ![t] = "exit"]
    /\ UNCHANGED <<store, now, wleads, wtargets, wresult, sends, delivered>>
    /\ UNCHANGED requestVars

\* The thread function has returned: the thread is no longer alive.
WExit(t) ==
    /\ pc[t] = "exit"
    /\ pc' = [pc EXCEPT ![t] = "idle"]
    /\ UNCHANGED <<store, now, SEND_THREAD, wleads, wtargets, wresult, sends, delivered>>
    /\ UNCHANGED requestVars

\* Mutant: True is returned on both paths.
ensure_send_thread_true(started) ==
    /\ started = "true"
    /\ IF SEND_THREAD # 0 /\ is_alive(SEND_THREAD)
       THEN UNCHANGED workerVars
       ELSE /\ \E t \in Threads :
                  /\ ~is_alive(t)
                  /\ \A u \in Threads : ~is_alive(u) => t <= u
                  /\ pc' = [pc EXCEPT ![t] = "load"]
                  /\ SEND_THREAD' = t
            /\ UNCHANGED <<wleads, wtargets, wresult>>

\* ------------------------------------------------------------ ensureRunning
\* _ensure_send_thread, the whole body under SEND_THREAD_LOCK. started is the
\* value returned.
ensure_send_thread(started) ==
    IF worker_active
    THEN /\ started = "false"
         /\ UNCHANGED workerVars
    ELSE /\ started = "true"
         /\ \E t \in Threads :
               /\ ~is_alive(t)
               /\ \A u \in Threads : ~is_alive(u) => t <= u
               /\ pc' = [pc EXCEPT ![t] = "load"]
               /\ SEND_THREAD' = t
         /\ UNCHANGED <<wleads, wtargets, wresult>>

\* ------------------------------------------------------------ POST /send
\* trigger_send -> _queue_approved_leads_for_sending: leads = load_leads()
SendLoad(r) ==
    /\ rpc[r] = "idle"
    /\ calls < MaxCalls
    /\ calls' = calls + 1
    /\ rpc' = [rpc EXCEPT ![r] = "send_loaded"]
    /\ rleads' = [rleads EXCEPT ![r] = store]
    /\ resp' = NoResponse
    /\ UNCHANGED <<store, now, sends, delivered, rarg, rqueued, rpoll>>
    /\ UNCHANGED workerVars

\* ... the loop over the leads; if queued: save_leads(leads); return queued
SendQueue(r) ==
    /\ rpc[r] = "send_loaded"
    /\ LET out == queue_approved(rleads[r], now) IN
          /\ rleads' = [rleads EXCEPT ![r] = out.leads]
          /\ rqueued' = [rqueued EXCEPT ![r] = out.queued]
          /\ store' = IF out.queued # 0 THEN out.leads ELSE store
    /\ rpc' = [rpc EXCEPT ![r] = "send_queued"]
    /\ UNCHANGED <<now, sends, delivered, calls, rarg, resp, rpoll>>
    /\ UNCHANGED workerVars

\* thread_started = _ensure_send_thread(); return jsonify(...), 200
SendEnsure(r) ==
    /\ rpc[r] = "send_queued"
    /\ \E started \in {"true", "false"} :
          /\ ensure_send_thread(started)
          /\ resp' = [NoResponse EXCEPT !.op = "send", !.code = 200,
                                        !.queued = rqueued[r], !.started = started]
    /\ rpc' = [rpc EXCEPT ![r] = "idle"]
    /\ rleads' = [rleads EXCEPT ![r] = <<>>]
    /\ rqueued' = [rqueued EXCEPT ![r] = 0]
    /\ UNCHANGED <<store, now, sends, delivered, calls, rarg, rpoll>>

\* ------------------------------------------------------------ PATCH /leads/<place_id>/status
\* The values a request may carry as status: the four of the chain, one of
\* them in lower case, an unknown word, and none.
StatusInputs == Statuses \cup {"sent", "Archived", ""}

\* Mutant: the test made on the lower-cased value.
valid_status_any_case(status) ==
    lower(status) \in {"drafted", "approved", "queued", "sent"}

\* status in ('Drafted', 'Approved', 'Queued', 'Sent')
valid_status(status) == status \in {"Drafted", "Approved", "Queued", "Sent"}

\* if status not in (...): return jsonify({'error': 'Invalid status'}), 400
StatusReject(r, status) ==
    /\ rpc[r] = "idle"
    /\ calls < MaxCalls
    /\ ~valid_status(status)
    /\ calls' = calls + 1
    /\ resp' = [NoResponse EXCEPT !.op = "status", !.code = 400]
    /\ UNCHANGED <<store, now, sends, delivered, rpc, rleads, rarg, rqueued, rpoll>>
    /\ UNCHANGED workerVars

\* The status was accepted: leads = load_leads()
StatusLoad(r) ==
    /\ rpc[r] = "idle"
    /\ calls < MaxCalls
    /\ calls' = calls + 1
    /\ rpc' = [rpc EXCEPT ![r] = "status_loaded"]
    /\ rleads' = [rleads EXCEPT ![r] = store]
    /\ resp' = NoResponse
    /\ UNCHANGED <<store, now, sends, delivered, rarg, rqueued, rpoll>>
    /\ UNCHANGED workerVars

\* The positions of the leads of a snapshot with a place id.
Positions(leads, place_id) == {i \in 1..Len(leads) : leads[i].place_id = place_id}

First(S) == CHOOSE i \in S : \A j \in S : i <= j

\* for lead in leads: if lead.get('place_id') == place_id: ...; break
update_status(r, place_id, status) ==
    /\ rpc[r] = "status_loaded"
    /\ valid_status(status)
    /\ LET hits == Positions(rleads[r], place_id) IN
       IF hits = {}
       THEN /\ resp' = [NoResponse EXCEPT !.op = "status", !.code = 404]
            /\ UNCHANGED store
       ELSE /\ store' = [rleads[r] EXCEPT ![First(hits)].status = status]
            /\ resp' = [NoResponse EXCEPT !.op = "status", !.code = 200]
    /\ rpc' = [rpc EXCEPT ![r] = "idle"]
    /\ rleads' = [rleads EXCEPT ![r] = <<>>]
    /\ UNCHANGED <<now, sends, delivered, calls, rarg, rqueued, rpoll>>
    /\ UNCHANGED workerVars

StatusSave(r) == \E p \in PlaceIds, s \in StatusInputs : update_status(r, p, s)

\* ------------------------------------------------------------ DELETE /leads/<place_id>
DeleteLoad(r) ==
    /\ rpc[r] = "idle"
    /\ calls < MaxCalls
    /\ calls' = calls + 1
    /\ rpc' = [rpc EXCEPT ![r] = "delete_loaded"]
    /\ rleads' = [rleads EXCEPT ![r] = store]
    /\ resp' = NoResponse
    /\ UNCHANGED <<store, now, sends, delivered, rarg, rqueued, rpoll>>
    /\ UNCHANGED workerVars

\* updated = [lead for lead in leads if lead.get('place_id') != place_id]
RECURSIVE Without(_, _)
Without(leads, place_id) ==
    IF leads = <<>> THEN <<>>
    ELSE IF Head(leads).place_id # place_id
         THEN <<Head(leads)>> \o Without(Tail(leads), place_id)
         ELSE Without(Tail(leads), place_id)

delete_lead(r, place_id) ==
    /\ rpc[r] = "delete_loaded"
    /\ LET updated == Without(rleads[r], place_id) IN
       IF Len(updated) = Len(rleads[r])
       THEN /\ resp' = [NoResponse EXCEPT !.op = "delete", !.code = 404]
            /\ UNCHANGED store
       ELSE /\ store' = updated
            /\ resp' = [NoResponse EXCEPT !.op = "delete", !.code = 200]
    /\ rpc' = [rpc EXCEPT ![r] = "idle"]
    /\ rleads' = [rleads EXCEPT ![r] = <<>>]
    /\ UNCHANGED <<now, sends, delivered, calls, rarg, rqueued, rpoll>>
    /\ UNCHANGED workerVars

DeleteSave(r) == \E p \in PlaceIds : delete_lead(r, p)

\* ------------------------------------------------------------ POST /brevo/webhook
Event(kind, email, message_id, date) ==
    [event |-> kind, email |-> email, message_id |-> message_id, date |-> date]

\* events = _extract_brevo_events(payload); leads = load_leads()
WebhookLoad(r, events) ==
    /\ rpc[r] = "idle"
    /\ calls < MaxCalls
    /\ calls' = calls + 1
    /\ events # <<>>
    /\ rpc' = [rpc EXCEPT ![r] = "webhook_loaded"]
    /\ rleads' = [rleads EXCEPT ![r] = store]
    /\ rarg' = [rarg EXCEPT ![r] = events]
    /\ resp' = NoResponse
    /\ UNCHANGED <<store, now, sends, delivered, rqueued, rpoll>>
    /\ UNCHANGED workerVars

\* Mutant: save_leads(leads) without the `if changed` test.
WebhookSave_always(r) ==
    /\ rpc[r] = "webhook_loaded"
    /\ LET out == webhook_merge(rleads[r], rarg[r], now) IN
          /\ store' = out.leads
          /\ resp' = [NoResponse EXCEPT !.op = "webhook", !.code = 200,
                                        !.received = Len(rarg[r]),
                                        !.matched = out.matched]
    /\ rpc' = [rpc EXCEPT ![r] = "idle"]
    /\ rleads' = [rleads EXCEPT ![r] = <<>>]
    /\ rarg' = [rarg EXCEPT ![r] = <<>>]
    /\ UNCHANGED <<now, sends, delivered, calls, rqueued, rpoll>>
    /\ UNCHANGED workerVars

\* The indices, the loop over the events, `if changed: save_leads(leads)`.
WebhookSave(r) ==
    /\ rpc[r] = "webhook_loaded"
    /\ LET out == webhook_merge(rleads[r], rarg[r], now) IN
          /\ store' = IF out.changed THEN out.leads ELSE store
          /\ resp' = [NoResponse EXCEPT !.op = "webhook", !.code = 200,
                                        !.received = Len(rarg[r]),
                                        !.matched = out.matched]
    /\ rpc' = [rpc EXCEPT ![r] = "idle"]
    /\ rleads' = [rleads EXCEPT ![r] = <<>>]
    /\ rarg' = [rarg EXCEPT ![r] = <<>>]
    /\ UNCHANGED <<now, sends, delivered, calls, rqueued, rpoll>>
    /\ UNCHANGED workerVars

\* The counts are not in the response.
NoCount == 0 - 1

\* [event for event in items if isinstance(event, dict)]
RECURSIVE Dicts(_)
Dicts(items) ==
    IF items = <<>> THEN <<>>
    ELSE IF Head(items).dict THEN <<Head(items).value>> \o Dicts(Tail(items))
         ELSE Dicts(Tail(items))

\* _extract_brevo_events. payload.shape is "list" (a JSON array), "wrapped"
\* (an object whose 'events' is an array), "single" (any other object: the
\* object itself is the one event) or "other" (no JSON, null, a scalar).
extract_brevo_events(payload) ==
    IF payload.shape \in {"list", "wrapped"} THEN Dicts(payload.items)
    ELSE IF payload.shape = "single" THEN <<payload.items[1].value>>
    ELSE <<>>

\* if not events: return jsonify({'message': 'No events in payload'}), 200
WebhookNoEvents(r) ==
    /\ rpc[r] = "idle"
    /\ calls < MaxCalls
    /\ calls' = calls + 1
    /\ resp' = [NoResponse EXCEPT !.op = "webhook", !.code = 200,
                                  !.received = NoCount, !.matched = NoCount]
    /\ UNCHANGED <<store, now, sends, delivered, rpc, rleads, rarg, rqueued, rpoll>>
    /\ UNCHANGED workerVars

\* brevo_webhook (POST) up to load_leads().
WebhookPost(r, payload) ==
    IF extract_brevo_events(payload) = <<>>
    THEN WebhookNoEvents(r)
    ELSE WebhookLoad(r, extract_brevo_events(payload))

\* ------------------------------------------------------------ POST /leads/open-status
BREVO_OPEN_STATUS_TTL_MINUTES == 5   \* BREVO_OPEN_STATUS_TTL_SECONDS = 300

\* Mutant: the freshness test without the `if lead.get('email_opened')` exit.
is_open_status_fresh_ttl_only(lead, clock) ==
    LET checked_at == parse_iso_timestamp(lead.email_open_checked_at) IN
    checked_at # NoTime /\ clock - checked_at < BREVO_OPEN_STATUS_TTL_MINUTES

\* _is_open_status_fresh; clock is datetime.now(utc) at the call.
is_open_status_fresh(lead, clock) ==
    IF lead.email_opened = "true" THEN TRUE
    ELSE LET checked_at == parse_iso_timestamp(lead.email_open_checked_at) IN
         checked_at # NoTime /\ clock - checked_at < BREVO_OPEN_STATUS_TTL_MINUTES

\* str(v).strip() on the place ids a request may carry.
strip_id(v) ==
    CASE v = " p1 " -> "p1"
      [] v = " "    -> ""
      [] OTHER      -> v

\* get_open_status: ids_raw = payload.get('place_ids') or []; a set when
\* ids_raw is a list, None (all |-> TRUE) otherwise. body.kind is "omitted"
\* (no key, or a falsy value), "list", or "other" (a truthy non-list).
request_place_ids(body) ==
    IF body.kind = "other" THEN [all |-> TRUE, ids |-> {}]
    ELSE LET ids_raw == IF body.kind = "list" THEN body.ids ELSE <<>> IN
         [all |-> FALSE,
          ids |-> {strip_id(ids_raw[k]) : k \in 1..Len(ids_raw)} \ {""}]

StatusEntry(opened, opened_at, checked_at, state) ==
    [opened |-> opened, opened_at |-> opened_at, checked_at |-> checked_at,
     state |-> state]

\* updates[place_id] = entry
Put(updates, place_id, entry) ==
    [q \in DOMAIN updates \cup {place_id} |->
        IF q = place_id THEN entry ELSE updates[q]]

\* _refresh_open_statuses: leads = load_leads(); now_iso = utcnow()
PollLoad(r, body) ==
    /\ rpc[r] = "idle"
    /\ calls < MaxCalls
    /\ calls' = calls + 1
    /\ rpc' = [rpc EXCEPT ![r] = "poll_loaded"]
    /\ rleads' = [rleads EXCEPT ![r] = store]
    /\ rpoll' = [rpoll EXCEPT ![r] =
                    [body |-> body,
                     all |-> request_place_ids(body).all,
                     place_ids |-> request_place_ids(body).ids,
                     now_iso |-> now, i |-> 1, changed |-> FALSE,
                     updates |-> <<>>]]
    /\ resp' = NoResponse
    /\ UNCHANGED <<store, now, sends, delivered, rarg, rqueued>>
    /\ UNCHANGED workerVars

\* The three `continue` tests at the head of the loop body are passed.
Considered(r, lead) ==
    /\ lead.place_id # ""
    /\ rpoll[r].all \/ lead.place_id \in rpoll[r].place_ids
    /\ lower(lead.status) = "sent"

\* The lead of this iteration reaches _fetch_brevo_open_event with an id.
NeedsQuery(r, lead) ==
    /\ Considered(r, lead)
    /\ ~is_open_status_fresh(lead, now)
    /\ strip(lead.brevo_message_id) # <<>>

\* One iteration of the loop that does not call the provider: the lead is
\* passed over, is fresh, or has no message id.
PollLead(r) ==
    /\ rpc[r] = "poll_loaded"
    /\ rpoll[r].i <= Len(rleads[r])
    /\ LET i    == rpoll[r].i
           lead == rleads[r][i]
       IN /\ ~NeedsQuery(r, lead)
          /\ IF ~Considered(r, lead)
             THEN /\ rpoll' = [rpoll EXCEPT ![r].i = i + 1]
                  /\ UNCHANGED rleads
             ELSE IF is_open_status_fresh(lead, now)
             THEN /\ rpoll' = [rpoll EXCEPT ![r].i = i + 1,
                        ![r].updates = Put(@, lead.place_id,
                           StatusEntry(lead.email_opened = "true",
                                       lead.email_opened_at,
                                       lead.email_open_checked_at,
                                       IF lead.email_opened = "true" THEN "opened"
                                       ELSE IF lead.email_open_state = "absent"
                                            THEN "unopened"
                                            ELSE lead.email_open_state))]
                  /\ UNCHANGED rleads
             ELSE /\ rleads' = [rleads EXCEPT ![r][i].email_open_state = "unknown",
                                              ![r][i].email_open_checked_at =
                                                  rpoll[r].now_iso]
                  /\ rpoll' = [rpoll EXCEPT ![r].i = i + 1,
                        ![r].changed = TRUE,
                        ![r].updates = Put(@, lead.place_id,
                           StatusEntry(FALSE, lead.email_opened_at,
                                       rpoll[r].now_iso, "unknown"))]
    /\ UNCHANGED <<store, now, sends, delivered, calls, rpc, rarg, rqueued, resp>>
    /\ UNCHANGED workerVars

\* _fetch_brevo_open_event: result is what the lookup meets: "no_key" (no
\* BREVO_API_KEY), "error" (the request raises or the provider answers with
\* an error status), "none" (no opened event listed) or "event" (an opened
\* event, with its date). Every outcome but the last returns None.
fetch_brevo_open_event(result, date) ==
    IF result = "event"
    THEN [found |-> TRUE, date |-> date]
    ELSE [found |-> FALSE, date |-> NoTime]

\* Mutant: when no event is found, changed is set only for a lead that never
\* had email_opened (the `changed = True` at the end of the branch dropped).
PollQuery_none_unsaved(r, result, date) ==
    /\ rpc[r] = "poll_loaded"
    /\ rpoll[r].i <= Len(rleads[r])
    /\ LET i       == rpoll[r].i
           lead    == rleads[r][i]
           now_iso == rpoll[r].now_iso
           event   == fetch_brevo_open_event(result, date)
           at      == IF event.date # NoTime THEN event.date ELSE now_iso
       IN /\ NeedsQuery(r, lead)
          /\ IF event.found
             THEN /\ rleads' = [rleads EXCEPT ![r][i].email_open_checked_at = now_iso,
                                              ![r][i].email_opened = "true",
                                              ![r][i].email_opened_at = at,
                                              ![r][i].email_open_state = "opened"]
                  /\ rpoll' = [rpoll EXCEPT ![r].i = i + 1,
                        ![r].changed = TRUE,
                        ![r].updates = Put(@, lead.place_id,
                           StatusEntry(TRUE, at, now_iso, "opened"))]
             ELSE /\ date = NoTime
                  /\ rleads' = [rleads EXCEPT ![r][i].email_open_checked_at = now_iso,
                                              ![r][i].email_opened = "false",
                                              ![r][i].email_open_state = "unopened"]
                  /\ rpoll' = [rpoll EXCEPT ![r].i = i + 1,
                        ![r].changed = @ \/ lead.email_opened = "absent",
                        ![r].updates = Put(@, lead.place_id,
                           StatusEntry(FALSE, lead.email_opened_at, now_iso,
                                       "unopened"))]
    /\ UNCHANGED <<store, now, sends, delivered, calls, rpc, rarg, rqueued, resp>>
    /\ UNCHANGED workerVars

\* event = _fetch_brevo_open_event(lead) and the branch on it.
PollQuery(r, result, date) ==
    /\ rpc[r] = "poll_loaded"
    /\ rpoll[r].i <= Len(rleads[r])
    /\ LET i       == rpoll[r].i
           lead    == rleads[r][i]
           now_iso == rpoll[r].now_iso
           event   == fetch_brevo_open_event(result, date)
           at      == IF event.date # NoTime THEN event.date ELSE now_iso
       IN /\ NeedsQuery(r, lead)
          /\ IF event.found
             THEN /\ rleads' = [rleads EXCEPT ![r][i].email_open_checked_at = now_iso,
                                              ![r][i].email_opened = "true",
                                              ![r][i].email_opened_at = at,
                                              ![r][i].email_open_state = "opened"]
                  /\ rpoll' = [rpoll EXCEPT ![r].i = i + 1,
                        ![r].changed = TRUE,
                        ![r].updates = Put(@, lead.place_id,
                           StatusEntry(TRUE, at, now_iso, "opened"))]
             ELSE /\ date = NoTime
                  /\ rleads' = [rleads EXCEPT ![r][i].email_open_checked_at = now_iso,
                                              ![r][i].email_opened = "false",
                                              ![r][i].email_open_state = "unopened"]
                  /\ rpoll' = [rpoll EXCEPT ![r].i = i + 1,
                        ![r].changed = TRUE,
                        ![r].updates = Put(@, lead.place_id,
                           StatusEntry(FALSE, lead.email_opened_at, now_iso,
                                       "unopened"))]
    /\ UNCHANGED <<store, now, sends, delivered, calls, rpc, rarg, rqueued, resp>>
    /\ UNCHANGED workerVars

\* if changed: save_leads(leads); return jsonify({'statuses': updates}), 200
PollSave(r) ==
    /\ rpc[r] = "poll_loaded"
    /\ rpoll[r].i > Len(rleads[r])
    /\ store' = IF rpoll[r].changed THEN rleads[r] ELSE store
    /\ resp' = [NoResponse EXCEPT !.op = "poll", !.code = 200,
                                  !.statuses = rpoll[r].updates]
    /\ rpc' = [rpc EXCEPT ![r] = "idle"]
    /\ rleads' = [rleads EXCEPT ![r] = <<>>]
    /\ rpoll' = [rpoll EXCEPT ![r] = NoPoll]
    /\ UNCHANGED <<now, sends, delivered, calls, rarg, rqueued>>
    /\ UNCHANGED workerVars

\* What the lookup of _fetch_brevo_open_event meets: an opened event without
\* or with a date, no event, a failed request, no API key.
PollEvents ==
    {<<"event", NoTime>>, <<"event", 3>>, <<"none", NoTime>>, <<"error", NoTime>>,
     <<"no_key", NoTime>>}

PollStep(r, bodies) ==
    \/ \E body \in bodies : PollLoad(r, body)
    \/ PollLead(r)
    \/ \E e \in PollEvents : PollQuery(r, e[1], e[2])
    \/ PollSave(r)

\* ------------------------------------------------------------ the concurrent system
\* The stores the system starts from: p1 has an address and has not been sent;
\* p2 shares the address or has none, and may have been sent (at minute 0,
\* with a provider id of its own).
SentBefore(p, e) ==
    [MarkSent(NewLead(p, e), 0, <<"<", "m0", ">">>) EXCEPT !.queued_at = 0]

InitStores ==
    { <<[NewLead("p1", "a@x.com") EXCEPT !.status = s1], l2>> :
         s1 \in {"Drafted", "Approved", "Queued"},
         l2 \in {[NewLead("p2", "") EXCEPT !.status = "Queued"],
                 [NewLead("p2", "A@X.COM") EXCEPT !.status = "Approved"],
                 SentBefore("p2", "a@x.com")} }

InitFrom(minute, served) ==
    /\ now = minute
    /\ SEND_THREAD = 0
    /\ pc = [t \in Threads |-> "idle"]
    /\ wleads = [t \in Threads |-> <<>>]
    /\ wtargets = [t \in Threads |-> <<>>]
    /\ wresult = [t \in Threads |-> <<>>]
    /\ sends = 0
    /\ calls = served
    /\ delivered = {}
    /\ rpc = [r \in Requests |-> "idle"]
    /\ rleads = [r \in Requests |-> <<>>]
    /\ rarg = [r \in Requests |-> <<>>]
    /\ rqueued = [r \in Requests |-> 0]
    /\ rpoll = [r \in Requests |-> NoPoll]
    /\ resp = NoResponse

InitRest == InitFrom(0, 0)

Init ==
    /\ store \in InitStores
    /\ InitRest

\* The payloads that reach the webhook while the system runs: one opened
\* event for the shared address, without a message id or with one the
\* provider issued.
IssuedIds == {<<"<", "m0", ">">>} \cup {ProviderId(n) : n \in 1..sends}

SpecBatches ==
    { <<Event(k, "a@x.com", m, NoTime)>> :
         k \in {"opened"}, m \in {<<>>} \cup IssuedIds }

Outcomes == {"id", "noid", "fail"}

\* The open-status requests that arrive while the system runs: for all the
\* leads, or for p2.
SpecPollBodies ==
    { [kind |-> "other", ids |-> <<>>], [kind |-> "list", ids |-> <<"p2">>] }

WorkerStep(t, outcomes) ==
    \/ WLoad(t)
    \/ WSkip(t)
    \/ \E o \in outcomes : WSubmit(t, o)
    \/ WMark(t)
    \/ WSleep(t)
    \/ WFinally(t)
    \/ WExit(t)

SendStep(r) == SendLoad(r) \/ SendQueue(r) \/ SendEnsure(r)

Next ==
    \/ Tick
    \/ \E t \in Threads : WorkerStep(t, Outcomes)
    \/ \E r \in Requests : SendStep(r)
    \/ \E r \in Requests : StatusLoad(r) \/ StatusSave(r)
    \/ \E r \in Requests : DeleteLoad(r) \/ DeleteSave(r)
    \/ \E r \in Requests : (\E b \in SpecBatches : WebhookLoad(r, b)) \/ WebhookSave(r)
    \/ \E r \in Requests : PollStep(r, SpecPollBodies)

Spec == Init /\ [][Next]_vars

\* ------------------------------------------------------------ the worker alone
\* POST /send and the worker it starts, every mail-dispatch call succeeding,
\* no other writer; the worker's steps are scheduled fairly. The stores
\* include a queued lead without an address (`if not email_address`).
DrainLeads(p) ==
    { [NewLead(p, e) EXCEPT !.status = s] :
         e \in {"a@x.com", ""}, s \in {"Drafted", "Approved", "Queued"} }

InitDrain ==
    /\ store \in { <<l1, l2>> : l1 \in DrainLeads("p1"), l2 \in DrainLeads("p2") }
    /\ InitRest

DrainWorker == \E t \in Threads : WorkerStep(t, {"id", "noid"})

NextDrain ==
    \/ \E r \in Requests : SendStep(r)
    \/ DrainWorker

SpecDrain == InitDrain /\ [][NextDrain]_vars /\ WF_vars(DrainWorker)

\* ------------------------------------------------------------ status updates and the worker
\* Status-update requests with every kind of status value, next to POST /send
\* and the worker it starts.
NextStatus ==
    \/ \E r \in Requests : SendStep(r)
    \/ \E t \in Threads : WorkerStep(t, Outcomes)
    \/ \E r \in Requests : \E s \in StatusInputs : StatusReject(r, s)
    \/ \E r \in Requests : StatusLoad(r) \/ StatusSave(r)

SpecStatus == Init /\ [][NextStatus]_vars

\* ------------------------------------------------------------ one worker run
\* The worker as the only writer: no lead is Approved, so POST /send starts
\* the worker and writes nothing. Dispatches may succeed or fail, and so may
\* the worker's load_leads().
RunLeads(p) ==
    { [NewLead(p, "a@x.com") EXCEPT !.status = "Queued", !.queued_at = 0],
      [NewLead(p, "") EXCEPT !.status = "Queued", !.queued_at = 0],
      NewLead(p, "a@x.com"),
      SentBefore(p, "a@x.com") }

InitRun ==
    /\ store \in { <<l1, l2, l3>> :
                     l1 \in RunLeads("p1"), l2 \in RunLeads("p2"), l3 \in RunLeads("p3") }
    /\ InitRest

NextRun ==
    \/ Tick
    \/ \E r \in Requests : SendStep(r)
    \/ \E t \in Threads : WorkerStep(t, Outcomes)
    \/ \E t \in Threads : WLoadFail(t)

SpecRun == InitRun /\ [][NextRun]_vars

\* ------------------------------------------------------------ the correlator alone
\* One webhook request with one event, against every store of up to MaxLeads
\* leads: each lead has the shared address in one of two spellings, is unsent
\* or was sent at minute 0 or 20, and has no message id or one of two, stored
\* with or without angle brackets; no two leads have the same id (the provider
\* issues each id once and the webhook gives an id only to a lead it does not
\* find in its index).
Place == <<"p1", "p2", "p3">>

CorrLead(p, e, t, m) ==
    IF t = NoTime
    THEN [NewLead(p, e) EXCEPT !.status = "Queued", !.brevo_message_id = m]
    ELSE MarkSent(NewLead(p, e), t, m)

CorrShapes ==
    {"a@x.com", "A@X.COM"} \X {NoTime, 0, 20} \X {<<>>, <<"<", "m1", ">">>, <<"m2">>}

DistinctIds(leads) ==
    \A i, j \in 1..Len(leads) :
       (i # j /\ normalize_message_id(leads[i].brevo_message_id) # <<>>) =>
          normalize_message_id(leads[i].brevo_message_id)
             # normalize_message_id(leads[j].brevo_message_id)

CorrStores ==
    { s \in { [i \in DOMAIN f |-> CorrLead(Place[i], f[i][1], f[i][2], f[i][3])] :
                 f \in UNION {[1..n -> CorrShapes] : n \in 1..MaxLeads} } :
         DistinctIds(s) }

CorrBatches ==
    { <<Event(k, e, m, d)>> :
         k \in {"opened", "delivered"},
         e \in {"a@x.com", "A@X.COM", "b@x.com", ""},
         m \in {<<>>, <<"m1">>, <<"<", "m1", ">">>, <<"<", "m2", ">">>, <<"f">>},
         d \in {NoTime, BadTime, 5, 10} }

InitCorr ==
    /\ store \in CorrStores
    /\ InitFrom(2 * TickMinutes, MaxCalls - 1)

NextCorr ==
    \E r \in Requests : (\E b \in CorrBatches : WebhookLoad(r, b)) \/ WebhookSave(r)

SpecCorr == InitCorr /\ [][NextCorr]_vars

\* ------------------------------------------------------------ the poll alone
\* One open-status request against stores of one or two leads, the clock
\* moving while the request runs. p1 is Sent or was set back to Queued, with
\* every combination of email_opened, last check (never, or 0, 4, 5, 6 or
\* 10 minutes before the start) and message id (none, blank, present); p2
\* is absent, Queued, or Sent and never checked.
PollStart == 10

PollShapes ==
    {"Sent", "Queued"} \X {"absent", "false", "true"}
       \X {NoTime, PollStart, PollStart - 4, PollStart - 5, PollStart - 6,
           PollStart - 10}
       \X {<<>>, <<" ">>, <<"<", "m1", ">">>}

PollLeadOf(p, shape) ==
    [NewLead(p, "a@x.com") EXCEPT
        !.status = shape[1], !.queued_at = 0, !.sent_at = 0,
        !.brevo_message_id = shape[4],
        !.email_opened = shape[2],
        !.email_opened_at = IF shape[2] = "true" THEN 0 ELSE NoTime,
        !.email_open_state = IF shape[2] = "true" THEN "opened"
                             ELSE IF shape[3] # NoTime THEN "unopened" ELSE "absent",
        !.email_open_checked_at = shape[3]]

PollStores ==
    { <<PollLeadOf("p1", f)>> \o tail :
         f \in PollShapes,
         tail \in {<<>>,
                   <<[NewLead("p2", "b@x.com") EXCEPT !.status = "Queued"]>>,
                   <<MarkSent(NewLead("p2", "b@x.com"), 0, <<"<", "m2", ">">>)>>} }

PollBodies ==
    { [kind |-> "omitted", ids |-> <<>>],
      [kind |-> "list", ids |-> <<>>],
      [kind |-> "list", ids |-> <<" p1 ", " ">>],
      [kind |-> "list", ids |-> <<"p2", "p3">>],
      [kind |-> "other", ids |-> <<>>] }

InitPoll ==
    /\ store \in PollStores
    /\ InitFrom(PollStart, MaxCalls - 1)

NextPoll ==
    \/ Tick
    \/ \E r \in Requests : PollStep(r, PollBodies)

SpecPoll == InitPoll /\ [][NextPoll]_vars

\* ------------------------------------------------------------ the webhook alone
\* One webhook request with any payload against stores of one or two leads.
\* p1 is in any status (a Sent lead may have been set back by a status
\* update) with any open state, with or without a message id; p2, when
\* present, is a Sent lead with another address and id.
EventShapes ==
    {"Drafted", "Queued", "Sent"}
       \X {<<"absent", "absent">>, <<"false", "unopened">>, <<"false", "failed">>,
           <<"false", "unknown">>, <<"true", "opened">>, <<"true", "failed">>}
       \X {<<>>, <<"m1">>}

EventLeadOf(p, shape) ==
    [NewLead(p, "a@x.com") EXCEPT
        !.status = shape[1],
        !.queued_at = IF shape[2][1] = "absent" /\ shape[1] = "Drafted" THEN NoTime ELSE 0,
        !.sent_at = IF shape[2][1] = "absent" /\ shape[1] # "Sent" THEN NoTime ELSE 0,
        !.brevo_message_id = shape[3],
        !.email_opened = shape[2][1],
        !.email_opened_at = IF shape[2][1] = "true" THEN 3 ELSE NoTime,
        !.email_open_state = shape[2][2],
        !.email_open_checked_at = IF shape[2][2] = "absent" THEN NoTime ELSE 3]

EventStores ==
    { <<EventLeadOf("p1", f)>> \o tail :
         f \in EventShapes,
         tail \in {<<>>, <<MarkSent(NewLead("p2", "b@x.com"), 0, <<"m2">>)>>} }

EventKinds ==
    {"opened", "Opened", "click", ""} \cup DeliveryKinds \cup FailureKinds

OneEvents ==
    { Event(k, e, m, d) :
         k \in EventKinds, e \in {"a@x.com", "c@x.com"},
         m \in {<<>>, <<"<", "m1", ">">>, <<"m3">>}, d \in {NoTime, 5} }

PairEvents ==
    { Event(k, "a@x.com", m, NoTime) :
         k \in {"opened", "delivered", "hard_bounce"}, m \in {<<>>, <<"m3">>} }

Item(e) == [dict |-> TRUE, value |-> e]
Junk == [dict |-> FALSE, value |-> Event("", "", <<>>, NoTime)]

EventPayloads ==
    { [shape |-> "single", items |-> <<Item(e)>>] : e \in OneEvents }
    \cup { [shape |-> "list", items |-> <<Item(e), Item(f)>>] :
              e \in PairEvents, f \in PairEvents }
    \cup { [shape |-> "list", items |-> <<Junk, Item(e)>>] : e \in PairEvents }
    \cup { [shape |-> "wrapped", items |-> <<Item(e)>>] : e \in PairEvents }
    \cup { [shape |-> k, items |-> <<>>] : k \in {"list", "wrapped", "other"} }
    \cup { [shape |-> "list", items |-> <<Junk>>] }

InitEvents ==
    /\ store \in EventStores
    /\ InitFrom(2 * TickMinutes, MaxCalls - 1)

NextEvents ==
    \E r \in Requests :
       \/ \E payload \in EventPayloads : WebhookPost(r, payload)
       \/ WebhookSave(r)

SpecEvents == InitEvents /\ [][NextEvents]_vars

\* ------------------------------------------------------------ merge and worker
\* Webhook requests, all within one minute, while the worker sends p2. p1
\* has every combination of status and open fields; the events are for p1.
MergeEvent ==
    { Event(k, "a@x.com", m, d) :
         k \in {"opened", "delivered", "spam", ""},
         m \in {<<>>, <<"<", "m3", ">">>}, d \in {NoTime, 5} }

MergePayloads ==
    { [shape |-> "single", items |-> <<Item(e)>>] : e \in MergeEvent }
    \cup { [shape |-> "list", items |-> <<Item(e), Item(e)>>] : e \in MergeEvent }

MergeStores ==
    { <<EventLeadOf("p1", f),
        [NewLead("p2", "b@x.com") EXCEPT !.status = "Queued", !.queued_at = 0]>> :
         f \in EventShapes }

InitMerge ==
    /\ store \in MergeStores
    /\ InitFrom(2 * TickMinutes, 0)

\* The worker where every lead has an address and every dispatch succeeds.
MergeWorker(t) ==
    WLoad(t) \/ WSubmit(t, "id") \/ WMark(t) \/ WSleep(t) \/ WFinally(t) \/ WExit(t)

NextMerge ==
    \/ \E r \in Requests : SendStep(r)
    \/ \E t \in Threads : MergeWorker(t)
    \/ \E r \in Requests :
          \/ \E payload \in MergePayloads : WebhookPost(r, payload)
          \/ WebhookSave(r)

SpecMerge == InitMerge /\ [][NextMerge]_vars

\* The response of brevo_webhook: without the two counts when the payload
\* holds no event; with received, the number of events, and matched when it
\* holds some, and nothing is saved when no event matched.
WebhookCountsWhenEvents ==
    [][\A r \in Requests :
          /\ WebhookNoEvents(r) =>
                /\ resp'.code = 200
                /\ resp'.received = NoCount /\ resp'.matched = NoCount
                /\ store' = store
          /\ WebhookSave(r) =>
                /\ resp'.code = 200
                /\ resp'.received = Len(rarg[r])
                /\ resp'.matched <= resp'.received
                /\ Len(rarg[r]) = 1 =>
                      (resp'.matched = 1 <=>
                          find_lead_for_brevo_event(rarg[r][1], rleads[r],
                             build_msg_index(rleads[r]),
                             build_email_index(rleads[r])) # 0)
                /\ resp'.matched = 0 => store' = store]_vars

\* No two leads of the store have the same normalised message id.
StoreIdsDistinct == DistinctIds(store)

\* ------------------------------------------------------------ claims

\* C1: in every interleaving of ensureRunning() calls with a running or
\* exiting worker, at most one worker thread is inside the dispatch loop of
\* _process_send_queue.
C1_SingleWorker == Cardinality({t \in Threads : InLoop(t)}) <= 1

\* C1 witness: a new worker is in the loop while the previous one, which has
\* cleared the flag, is still exiting.
C1_Witness ==
    \E t, u \in Threads : t # u /\ InLoop(t) /\ pc[u] = "exit" /\ SEND_THREAD = t

\* The threads an ensureRunning() step starts.
StartedNow == {t \in Threads : pc[t] = "idle" /\ pc'[t] = "load"}

\* C2: ensureRunning() returns true exactly when the call started a worker
\* (one thread, which becomes the referenced one); while a worker is active it
\* returns false and changes nothing; after any call a worker is active, so a
\* second call right after the first starts nothing and returns false.
C2_EnsureReturn ==
    [][\A r \in Requests : SendEnsure(r) =>
          /\ (resp'.started = "true") <=>
                (Cardinality(StartedNow) = 1 /\ SEND_THREAD' \in StartedNow)
          /\ worker_active =>
                (resp'.started = "false" /\ UNCHANGED workerVars /\ UNCHANGED store)
          /\ resp'.started = "false" => (StartedNow = {} /\ UNCHANGED workerVars)
          /\ worker_active']_vars

\* C2 witness: a second /send has returned false while the worker that the
\* first one started is the only thread.
C2_Witness ==
    /\ calls >= 2
    /\ resp.op = "send" /\ resp.started = "false"
    /\ Cardinality({t \in Threads : is_alive(t)}) = 1
    /\ worker_active

\* C3: the worker never submits to mail-dispatch a lead whose sent_at is set in
\* its snapshot, whatever the lead's status.
C3_NoResubmit ==
    [][\A t \in Threads : (\E o \in Outcomes : WSubmit(t, o)) =>
          wleads[t][Head(wtargets[t])].sent_at = NoTime]_vars

\* C3 witness: a worker has submitted a lead while its snapshot holds another
\* lead that is Queued with sent_at set (set back to Queued after it was sent).
C3_Witness ==
    \E t \in Threads :
       /\ pc[t] \in {"sent", "sleep"}
       /\ \E i \in 1..Len(wleads[t]) :
             /\ i # Head(wtargets[t])
             /\ wleads[t][i].status = "Queued"
             /\ wleads[t][i].sent_at # NoTime

\* The store holds a lead with this place id whose sent_at is set / no lead
\* with this place id.
StoredSent(p) == \E i \in 1..Len(store) : store[i].place_id = p /\ store[i].sent_at # NoTime
Absent(p) == Positions(store, p) = {}

\* C4: in every interleaving of the worker with the request handlers, a lead's
\* persisted sent_at, once set, is never unset again, and no lead is accepted
\* by mail-dispatch more than once.
C4_SentOnce ==
    [][\A p \in PlaceIds :
          /\ StoredSent(p) => (StoredSent(p)' \/ Absent(p)')
          /\ \A t \in Threads :
                (/\ pc[t] = "pass" /\ pc'[t] = "sent"
                 /\ wleads[t][Head(wtargets[t])].place_id = p) => p \notin delivered]_vars

\* A lead the worker would send: Queued, no sent_at, with an address.
Eligible(lead) == IsTarget(lead) /\ lead.email # ""

\* C5: when POST /send has queued a lead and its ensureRunning() call has
\* returned, the lead is submitted without a further trigger; so at that moment
\* a worker must still be inside its loop (it loads the store again), since no
\* other thread ever loads the queue.
C5_TriggerServed ==
    [][\A r \in Requests : SendEnsure(r) =>
          ((\E i \in 1..Len(store) : Eligible(store[i])) =>
              \E t \in Threads : pc'[t] \in {"load", "pass", "sent", "sleep"})]_vars

\* C6: a started worker eventually observes an empty queue, leaves the loop and
\* clears the flag, for every initial collection, when every dispatch succeeds.
C6_WorkerTerminates ==
    \A t \in Threads : (pc[t] = "load") ~> (pc[t] = "exit" /\ SEND_THREAD # t)

\* C7: the bulk step turns every Approved lead of the loaded list into Queued
\* with queued_at set, returns how many it changed, leaves every other lead as
\* it was, and persists the list when it changed one.
C7_BulkQueue ==
    [][\A r \in Requests : SendQueue(r) =>
          LET old == rleads[r]
              new == rleads'[r]
          IN /\ Len(new) = Len(old)
             /\ \A i \in 1..Len(old) :
                   IF old[i].status = "Approved"
                   THEN /\ new[i] = [old[i] EXCEPT !.status = "Queued", !.queued_at = now]
                        /\ new[i].queued_at # NoTime
                   ELSE new[i] = old[i]
             /\ rqueued'[r] = Cardinality({i \in 1..Len(old) : old[i].status = "Approved"})
             /\ rqueued'[r] > 0 => store' = new]_vars

\* C7 witness: the step has queued one lead of a list that also holds a Sent lead.
C7_Witness ==
    \E r \in Requests :
       /\ rpc[r] = "send_queued" /\ rqueued[r] = 1
       /\ \E i, j \in 1..Len(rleads[r]) :
             /\ rleads[r][i].status = "Queued" /\ rleads[r][i].queued_at = now
             /\ rleads[r][j].status = "Sent"
       /\ store = rleads[r]

NoApproved(leads) == \A i \in 1..Len(leads) : leads[i].status # "Approved"

\* C8: the bulk step leaves no Approved lead behind, and invoked on a
\* collection without an Approved lead it returns 0 and changes nothing,
\* neither a field of a lead nor the store.
C8_BulkIdempotent ==
    [][\A r \in Requests : SendQueue(r) =>
          /\ NoApproved(rleads'[r])
          /\ NoApproved(rleads[r]) =>
                (rqueued'[r] = 0 /\ rleads'[r] = rleads[r] /\ UNCHANGED store)]_vars

\* C8 witness: a second invocation has returned 0 on a store in which p1 is
\* still Queued by the first one, at a later time.
C8_Witness ==
    \E r \in Requests :
       /\ rpc[r] = "send_queued" /\ rqueued[r] = 0 /\ calls >= 2
       /\ \E i \in 1..Len(store) :
             /\ store[i].place_id = "p1" /\ store[i].status = "Queued"
             /\ store[i].queued_at # NoTime /\ store[i].queued_at < now

\* The effect of a webhook request with one event that matched the lead at
\* position i: that lead carries the processing time, the others are as loaded,
\* and one match is reported.
MatchedOnly(r, i) ==
    /\ resp'.matched = 1
    /\ Len(store') = Len(rleads[r])
    /\ store'[i].email_open_checked_at = now
    /\ \A j \in 1..Len(rleads[r]) : j # i => store'[j] = rleads[r][j]

\* The event's message id, brackets stripped, is the id of the lead at i.
SameMessageId(event, lead) ==
    /\ normalize_message_id(event.message_id) # <<>>
    /\ normalize_message_id(event.message_id) = normalize_message_id(lead.brevo_message_id)

\* C9: an event whose normalised message id is the normalised id of a lead is
\* matched to that lead, whatever its recipient email and timestamp and
\* whatever other leads share the address.
C9_MessageIdWins ==
    [][\A r \in Requests : WebhookSave(r) =>
          \A i \in 1..Len(rleads[r]) :
             SameMessageId(rarg[r][1], rleads[r][i]) => MatchedOnly(r, i)]_vars

\* C9 witness: an event without a date (the email rule would take the most
\* recent lead, p2) has been merged into p1, whose id it carries.
C9_Witness ==
    /\ resp.op = "webhook" /\ resp.matched = 1
    /\ Len(store) = 2
    /\ email_key(store[1].email) = email_key(store[2].email)
    /\ store[1].sent_at = 0 /\ store[2].sent_at = 20
    /\ store[1].brevo_message_id = <<"m1">>
    /\ store[1].last_brevo_event = "opened" /\ store[1].last_brevo_event_at = now
    /\ store[2].last_brevo_event = ""

\* The leads of a snapshot with the event's recipient email that were sent no
\* later than 10 minutes after the event.
InWindow(leads, event) ==
    {i \in 1..Len(leads) :
        /\ email_key(event.email) # ""
        /\ email_key(leads[i].email) = email_key(event.email)
        /\ leads[i].sent_at # NoTime
        /\ leads[i].sent_at <= event.date + WINDOW_MINUTES}

\* C10: an event with a timestamp and no matching message id is matched, among
\* the leads with its recipient email, to one with the latest sent_at that is
\* at most 10 minutes after the event's timestamp.
C10_TimeWindow ==
    [][\A r \in Requests : WebhookSave(r) =>
          LET leads == rleads[r]
              event == rarg[r][1]
          IN (/\ event.date >= 0
              /\ \A i \in 1..Len(leads) : ~SameMessageId(event, leads[i])
              /\ InWindow(leads, event) # {}) =>
                \E i \in InWindow(leads, event) :
                   /\ \A j \in InWindow(leads, event) : leads[j].sent_at <= leads[i].sent_at
                   /\ MatchedOnly(r, i)]_vars

\* C10 witness: leads sent at T = 0 and T + 20 share an address; an event at
\* T + 5 without a message id has been merged into the lead sent at T.
C10_Witness ==
    /\ resp.op = "webhook" /\ resp.matched = 1
    /\ \E i, j \in 1..Len(store) :
          /\ email_key(store[i].email) = email_key(store[j].email)
          /\ store[i].sent_at = 0 /\ store[j].sent_at = 20
          /\ store[i].brevo_message_id = <<>>
          /\ store[i].last_brevo_event_at = 5
          /\ store[j].last_brevo_event = ""

\* A value other than white space is stored as the lead's provider message id.
HasMessageId(lead) ==
    \E k \in 1..Len(lead.brevo_message_id) : lead.brevo_message_id[k] # " "

\* C13: during an open-status poll the provider is queried for a lead only
\* if the lead is not fresh: never when its email_opened is already true,
\* never when its last check is less than the TTL before the current time,
\* and never when it has no provider message id.
C13_QueryOnlyStale ==
    [][\A r \in Requests :
          (\E e \in PollEvents : PollQuery(r, e[1], e[2])) =>
             LET lead == rleads[r][rpoll[r].i] IN
             /\ lead.email_opened # "true"
             /\ ~(/\ lead.email_open_checked_at >= 0
                  /\ now - lead.email_open_checked_at < BREVO_OPEN_STATUS_TTL_MINUTES)
             /\ HasMessageId(lead)]_vars

\* A lead last checked exactly one TTL before the poll has just been queried
\* (the provider listed no opened event).
C13_Witness ==
    \E r \in Requests :
       /\ rpc[r] = "poll_loaded"
       /\ rpoll[r].i = 2
       /\ store[1].email_open_checked_at = PollStart - BREVO_OPEN_STATUS_TTL_MINUTES
       /\ store[1].email_opened = "false"
       /\ rleads[r][1].email_open_checked_at = rpoll[r].now_iso
       /\ rleads[r][1].email_open_state = "unopened"
       /\ rpoll[r].now_iso = PollStart

\* The place ids of the leads of a snapshot whose status is Sent.
SentIds(leads) ==
    {leads[i].place_id : i \in {j \in 1..Len(leads) : leads[j].status = "Sent"}}

\* C14: an open-status request whose place_ids is omitted or an empty list
\* considers all the leads with status Sent and returns a status entry for
\* each of them.
C14_AllSentListed ==
    [][\A r \in Requests :
          (/\ PollSave(r)
           /\ rpoll[r].body.kind \in {"omitted", "list"}
           /\ rpoll[r].body.ids = <<>>) =>
             DOMAIN resp'.statuses = SentIds(rleads[r])]_vars

\* C11: applying any webhook event that is not an opened event (a delivery
\* kind, a failure kind, an unknown kind) to a lead whose email_opened is
\* true leaves email_opened true. Stated for every event of the payload
\* against every lead of the loaded snapshot.
C11_OpenedKept ==
    \A r \in Requests :
       rpc[r] = "webhook_loaded" =>
          \A k \in 1..Len(rarg[r]), i \in 1..Len(rleads[r]) :
             (rarg[r][k].event \notin {"opened", "Opened"}
                 /\ rleads[r][i].email_opened = "true") =>
                apply_brevo_event_to_lead(rleads[r][i], rarg[r][k], now).email_opened
                   = "true"

\* A delivered event has been merged into a lead that was opened before.
C11_Witness ==
    /\ resp.op = "webhook"
    /\ resp.matched = 1
    /\ store[1].last_brevo_event = "delivered"
    /\ store[1].email_opened = "true"
    /\ store[1].email_opened_at = 3

\* C16: for every webhook POST payload (one event, a batch, an empty batch,
\* a malformed body) the handler responds 200 with received equal to the
\* number of events of the payload and matched equal to the number of
\* events for which a lead was found; events that match no lead cause no
\* mutation.
C16_WebhookCounts ==
    [][\A r \in Requests :
          /\ WebhookNoEvents(r) =>
                /\ resp'.code = 200
                /\ resp'.received = 0
                /\ resp'.matched = 0
                /\ store' = store
          /\ WebhookSave(r) =>
                /\ resp'.code = 200
                /\ resp'.received = Len(rarg[r])
                /\ resp'.matched <= resp'.received
                /\ Len(rarg[r]) = 1 =>
                      (resp'.matched = 1 <=>
                          find_lead_for_brevo_event(rarg[r][1], rleads[r],
                             build_msg_index(rleads[r]),
                             build_email_index(rleads[r])) # 0)
                /\ resp'.matched = 0 => store' = store]_vars

\* The delivery-correlation fields of a lead.
CorrelationFields(lead) ==
    <<lead.brevo_message_id, lead.email_opened, lead.email_opened_at,
      lead.email_open_state, lead.email_open_checked_at,
      lead.last_brevo_event, lead.last_brevo_event_at>>

\* C18: the correlator changes the delivery-correlation fields of a lead
\* only while the lead's status is Sent: a webhook merge leaves every
\* Drafted, Approved or Queued lead of its snapshot as it was.
C18_OnlySentCorrelated ==
    [][\A r \in Requests :
          WebhookSave(r) =>
             \A i \in 1..Len(rleads[r]) :
                rleads[r][i].status # "Sent" =>
                   CorrelationFields(webhook_merge(rleads[r], rarg[r], now).leads[i])
                      = CorrelationFields(rleads[r][i])]_vars

\* The stored lead p is Sent and its email_opened is true.
OpenedSent(p) ==
    \E i \in 1..Len(store) :
       /\ store[i].place_id = p
       /\ store[i].status = "Sent"
       /\ store[i].email_opened = "true"

\* The stored lead p has an email_opened that is not true.
NotOpened(p) ==
    \E i \in 1..Len(store) :
       store[i].place_id = p /\ store[i].email_opened # "true"

\* C12: in the persisted store, once a Sent lead's email_opened has become
\* true it never becomes false again, in any interleaving of webhook merges,
\* open-status polls and worker saves.
C12_OpenedSticky ==
    [][((\E t \in Threads : WMark(t))
           \/ (\E r \in Requests : WebhookSave(r))
           \/ (\E r \in Requests : PollSave(r))) =>
          \A p \in PlaceIds : OpenedSent(p) => ~NotOpened(p)']_vars

\* The place of a status in the chain Drafted -> Approved -> Queued -> Sent.
Rank(status) ==
    CASE status = "Drafted"  -> 1
      [] status = "Approved" -> 2
      [] status = "Queued"   -> 3
      [] status = "Sent"     -> 4
      [] OTHER               -> 0

\* C17 (as claimed): over any sequence of the operations (bulk queue, worker
\* send, status update, webhook merge, poll) the stored status of a lead
\* never moves to an earlier state of the chain.
C17_NeverBackward ==
    [][\A i \in 1..Len(store), j \in 1..Len(store') :
          store[i].place_id = store'[j].place_id =>
             Rank(store'[j].status) >= Rank(store[i].status)]_vars

\* Lead by lead, new has a status that is not earlier than in old.
Forward(old, new) ==
    /\ Len(new) = Len(old)
    /\ \A i \in 1..Len(old) :
          /\ new[i].place_id = old[i].place_id
          /\ Rank(new[i].status) >= Rank(old[i].status)

\* C17 (amended): bulk queue, worker send, webhook merge and poll never give
\* a lead a status earlier in the chain than it has in the snapshot the
\* operation loaded; whatever they save is that snapshot moved forward.
C17_CoreForward ==
    [][/\ \A r \in Requests :
             /\ SendQueue(r) => Forward(rleads[r], rleads'[r])
                                   /\ (store' = store \/ store' = rleads'[r])
             /\ WebhookSave(r) => (store' = store \/ Forward(rleads[r], store'))
             /\ (PollLead(r) \/ \E e \in PollEvents : PollQuery(r, e[1], e[2])) =>
                   Forward(rleads[r], rleads'[r])
             /\ PollSave(r) => (store' = store \/ store' = rleads[r])
       /\ \A t \in Threads : WMark(t) => Forward(wleads[t], store')]_vars

\* /send has queued an Approved lead while another lead was already Sent,
\* and a webhook merge has been saved after it.
C17_Witness ==
    /\ resp.op = "webhook"
    /\ resp.matched = 1
    /\ \E i \in 1..Len(store) :
          store[i].status = "Queued" /\ store[i].queued_at # NoTime
    /\ \E i \in 1..Len(store) :
          store[i].status = "Sent" /\ store[i].last_brevo_event = "opened"

\* C19: when the mail-dispatch call for a selected lead succeeds, the worker
\* sets that lead to Sent with sent_at set, email_opened false,
\* email_opened_at and email_open_checked_at null, stores the provider
\* message id if one was returned, and changes no other lead.
C19_MarkSent ==
    [][\A t \in Threads :
          WMark(t) =>
             LET i   == Head(wtargets[t])
                 old == wleads[t][i]
                 new == store'[i]
             IN /\ Len(store') = Len(wleads[t])
                /\ new.place_id = old.place_id
                /\ new.status = "Sent"
                /\ new.sent_at = now /\ new.sent_at # NoTime
                /\ new.email_opened = "false"
                /\ new.email_opened_at = NoTime
                /\ new.email_open_checked_at = NoTime
                /\ new.brevo_message_id =
                      IF wresult[t] # <<>> THEN wresult[t] ELSE old.brevo_message_id
                /\ \A j \in 1..Len(store') : j # i => store'[j] = wleads[t][j]
                /\ wleads[t] = store =>
                      \A j \in 1..Len(store') : j # i => store'[j] = store[j]]_vars

\* p1 was Approved, POST /send queued it, the dispatch succeeded and the
\* worker has stored it as Sent.
C19_Witness ==
    /\ "p1" \in delivered
    /\ store[1].place_id = "p1"
    /\ store[1].status = "Sent"
    /\ store[1].queued_at # NoTime
    /\ store[1].sent_at # NoTime
    /\ store[1].email_opened = "false"
    /\ store[1].brevo_message_id = ProviderId(1)

\* Two snapshots differ at most in the status of the lead at position i.
OnlyStatusAt(old, new, i) ==
    /\ Len(new) = Len(old)
    /\ \A j \in 1..Len(old) :
          IF j = i THEN new[j] = [old[j] EXCEPT !.status = new[j].status]
          ELSE new[j] = old[j]

\* C15: the status update accepts exactly Drafted, Approved, Queued and
\* Sent; any other value fails with Invalid status (400) and an unknown
\* place id fails with not-found (404), the stored collection unchanged in
\* both cases; on success only the status of the one addressed lead changes
\* (in the snapshot the handler loaded and saves, and so in the store when
\* no other writer saved in between).
C15_StatusUpdate ==
    [][\A r \in Requests, s \in StatusInputs :
          /\ StatusReject(r, s) =>
                /\ s \notin {"Drafted", "Approved", "Queued", "Sent"}
                /\ resp'.code = 400
                /\ store' = store
          /\ \A p \in PlaceIds :
                update_status(r, p, s) =>
                   /\ s \in {"Drafted", "Approved", "Queued", "Sent"}
                   /\ IF \A i \in 1..Len(rleads[r]) : rleads[r][i].place_id # p
                      THEN resp'.code = 404 /\ store' = store
                      ELSE /\ resp'.code = 200
                           /\ \E i \in 1..Len(rleads[r]) :
                                 /\ rleads[r][i].place_id = p
                                 /\ store'[i].status = s
                                 /\ OnlyStatusAt(rleads[r], store', i)
                                 /\ rleads[r] = store => OnlyStatusAt(store, store', i)]_vars

\* A status update of p2 has succeeded and changed its stored status.
C15_Witness ==
    /\ resp.op = "status"
    /\ resp.code = 200
    /\ store[2].place_id = "p2"
    /\ store[2].status = "Drafted"
    /\ store[2].sent_at = 0

\* C20: within a worker run with no concurrent writer the snapshot is saved
\* after each successful dispatch and before the next dispatch attempt: when
\* a dispatch is attempted, every lead the provider has accepted in this run
\* is stored as Sent with sent_at set.
C20_SavedBeforeNext ==
    [][\A t \in Threads :
          (\E o \in Outcomes : WSubmit(t, o)) =>
             \A p \in delivered :
                \E i \in 1..Len(store) :
                   /\ store[i].place_id = p
                   /\ store[i].status = "Sent"
                   /\ store[i].sent_at # NoTime]_vars

\* The second lead of a pass has just been accepted by the provider while
\* the first is stored as Sent.
C20_Witness ==
    \E t \in Threads :
       /\ pc[t] = "sent"
       /\ Len(wtargets[t]) = 1
       /\ delivered = {"p1", "p2"}
       /\ store[1].status = "Sent" /\ store[1].sent_at # NoTime
       /\ store[2].status = "Queued"

\* C21: when the mail-dispatch call for a lead fails, the lead is left as it
\* was (Queued, sent_at unset, no correlation field touched) in the snapshot
\* and in the store, the worker stays in its loop and goes on to the pacing
\* sleep and the remaining targets, and the lead is still eligible.
C21_FailureKeepsLead ==
    [][\A t \in Threads :
          /\ WSubmit(t, "fail") =>
                LET i == Head(wtargets[t]) IN
                /\ store' = store
                /\ wleads'[t] = wleads[t]
                /\ wtargets'[t] = wtargets[t]
                /\ IsTarget(wleads'[t][i])
                /\ \E j \in 1..Len(store') :
                      store'[j].place_id = wleads[t][i].place_id /\ IsTarget(store'[j])
                /\ pc'[t] = "sleep"
          /\ (WSleep(t) /\ Tail(wtargets[t]) # <<>>) =>
                (pc'[t] = "pass" /\ wtargets'[t] = Tail(wtargets[t]))]_vars

\* After a failed dispatch of p1 the worker has gone on to p2, which the
\* provider accepted; p1 is still Queued without sent_at.
C21_Witness ==
    \E t \in Threads :
       /\ pc[t] = "sent"
       /\ sends = 2
       /\ delivered = {"p2"}
       /\ store[1].place_id = "p1" /\ IsTarget(store[1])

\* C22: the worker performs one pacing sleep after every selected lead it
\* handles: every step that takes a lead off the targets of the pass is the
\* pacing sleep, so no two passes follow each other without one.
C22_SleepAfterEachLead ==
    [][\A t \in Threads :
          (wtargets[t] # <<>> /\ wtargets'[t] = Tail(wtargets[t])) => WSleep(t)]_vars

\* No thread is inside _process_send_queue before its finally block has run.
NoWorkerRunning == \A t \in Threads : pc[t] \in {"idle", "exit"}

\* C23: whenever a worker ends, by an empty queue or by an error outside the
\* per-lead handler, the flag is cleared: the finally block sets SEND_THREAD
\* to None, a thread that has ended is never the referenced one, and the
\* next ensureRunning() returns true and starts a worker.
C23_FlagCleared ==
    [][/\ \A t \in Threads : WFinally(t) => (SEND_THREAD' = 0 /\ ~worker_active')
       /\ NoWorkerRunning => SEND_THREAD = 0
       /\ \A r \in Requests :
             (SendEnsure(r) /\ NoWorkerRunning) =>
                (resp'.started = "true" /\ \E t \in Threads : pc'[t] = "load")]_vars

\* A worker ended by a load error, and the next ensureRunning() has started
\* a new one.
C23_Witness ==
    /\ resp.op = "send" /\ resp.started = "true"
    /\ calls >= 2
    /\ sends = 0
    /\ \E t \in Threads : pc[t] = "load" /\ SEND_THREAD = t
    /\ Targets(store) # <<>>

\* The leads of a snapshot that have the event's recipient email.
SameEmail(leads, event) ==
    {i \in 1..Len(leads) :
        /\ email_key(event.email) # ""
        /\ email_key(leads[i].email) = email_key(event.email)}

\* C24: an event without a matching message id whose timestamp is missing or
\* unreadable, or for which no lead with its recipient email was sent within
\* the window, is matched to the most recent lead with that email (greatest
\* sent_at, leads without sent_at last); an event without an email, or whose
\* email no lead has, matches nothing and nothing is saved.
C24_Fallback ==
    [][\A r \in Requests : WebhookSave(r) =>
          LET leads == rleads[r]
              event == rarg[r][1]
              cands == SameEmail(leads, event)
          IN (\A i \in 1..Len(leads) : ~SameMessageId(event, leads[i])) =>
                /\ cands = {} => (resp'.matched = 0 /\ store' = store)
                /\ (/\ cands # {}
                    /\ \/ parse_iso_timestamp(event.date) = NoTime
                       \/ InWindow(leads, event) = {}) =>
                      \E i \in cands :
                         /\ \A j \in cands : SentKey(leads[j]) <= SentKey(leads[i])
                         /\ MatchedOnly(r, i)]_vars

\* C24 witness: p1 is not sent, p2 with the same address was sent at T + 20;
\* an event at T + 5 without a message id, too early for p2's window, has
\* been merged into p2.
C24_Witness ==
    /\ resp.op = "webhook" /\ resp.matched = 1
    /\ Len(store) = 2
    /\ email_key(store[1].email) = email_key(store[2].email)
    /\ store[1].sent_at = NoTime /\ store[2].sent_at = 20
    /\ store[2].brevo_message_id = <<>>
    /\ store[2].last_brevo_event_at = 5
    /\ store[1].last_brevo_event = ""

\* The lead of the snapshot of request r that the handler finds for the one
\* event of its payload, 0 when the payload is not one event or no lead is
\* found.
MatchedLead(r) ==
    IF Len(rarg[r]) # 1 THEN 0
    ELSE find_lead_for_brevo_event(rarg[r][1], rleads[r],
                                   build_msg_index(rleads[r]),
                                   build_email_index(rleads[r]))

\* C25: an opened event sets email_opened true and the state opened, and
\* sets email_opened_at to the event's timestamp only the first time: on a
\* lead already recorded as opened, email_opened_at keeps its value.
C25_OpenedAtOnce ==
    [][\A r \in Requests :
          (WebhookSave(r) /\ MatchedLead(r) # 0
              /\ lower(rarg[r][1].event) = "opened") =>
             LET old == rleads[r][MatchedLead(r)]
                 new == store'[MatchedLead(r)]
                 event_at == IF rarg[r][1].date # NoTime THEN rarg[r][1].date ELSE now
             IN /\ new.email_opened = "true"
                /\ new.email_open_state = "opened"
                /\ new.email_opened_at =
                      IF old.email_opened = "true" THEN old.email_opened_at ELSE event_at]_vars

\* C26: a delivered, request or sent event on a lead already recorded as
\* opened never leaves the state unopened, whatever the state was before; on
\* a lead whose open flag was never set it sets email_opened false and the
\* state unopened.
C26_DeliveryKeepsOpened ==
    [][\A r \in Requests :
          (WebhookSave(r) /\ MatchedLead(r) # 0
              /\ lower(rarg[r][1].event) \in DeliveryKinds) =>
             LET old == rleads[r][MatchedLead(r)]
                 new == store'[MatchedLead(r)]
             IN /\ old.email_opened = "true" => new.email_open_state # "unopened"
                /\ old.email_opened = "absent" =>
                      (new.email_opened = "false" /\ new.email_open_state = "unopened")]_vars

\* C27: a hard_bounce, soft_bounce, invalid, blocked or spam event sets the
\* state failed whatever it was before and leaves email_opened and
\* email_opened_at as they were.
C27_FailureKeepsOpen ==
    [][\A r \in Requests :
          (WebhookSave(r) /\ MatchedLead(r) # 0
              /\ lower(rarg[r][1].event) \in FailureKinds) =>
             LET old == rleads[r][MatchedLead(r)]
                 new == store'[MatchedLead(r)]
             IN /\ new.email_open_state = "failed"
                /\ new.email_opened = old.email_opened
                /\ new.email_opened_at = old.email_opened_at]_vars

\* A spam complaint has been merged into a lead that was opened at T + 3.
C27_Witness ==
    /\ resp.op = "webhook" /\ resp.matched = 1
    /\ store[1].last_brevo_event = "spam"
    /\ store[1].email_open_checked_at = now
    /\ store[1].email_open_state = "failed"
    /\ store[1].email_opened = "true"
    /\ store[1].email_opened_at = 3

\* C28: the merge is idempotent and saves only on a change: merging the
\* same event a second time with the same processing timestamp finds the
\* same lead, changes no field and reports no change; a batch that changes
\* no field of the snapshot saves nothing, so the store keeps what other
\* writers saved since the snapshot was loaded.
C28_MergeIdempotent ==
    [][\A r \in Requests : WebhookSave(r) =>
          LET once  == webhook_merge(rleads[r], rarg[r], now)
              twice == webhook_merge(once.leads, rarg[r], now)
          IN /\ (\A k \in 1..Len(rarg[r]) : rarg[r][k] = rarg[r][1]) =>
                   /\ twice.leads = once.leads
                   /\ ~twice.changed
                   /\ twice.matched = once.matched
             /\ once.leads = rleads[r] => (~once.changed /\ store' = store)]_vars

\* C28 witness: an event already merged in this minute arrives again and is
\* matched, the worker has saved p2 as Sent since the request loaded its
\* snapshot, and the request leaves the store as the worker saved it.
C28_Witness ==
    \E r \in Requests :
       /\ rpc[r] = "webhook_loaded"
       /\ rarg[r][1].event = "opened"
       /\ webhook_merge(rleads[r], rarg[r], now).matched >= 1
       /\ ~webhook_merge(rleads[r], rarg[r], now).changed
       /\ rleads[r][1].last_brevo_event_at = rarg[r][1].date
       /\ rleads[r][2].status = "Queued"
       /\ store[2].status = "Sent"

\* The place ids of the leads of the snapshot of request r that the poll
\* considers.
ConsideredIds(r) ==
    {rleads[r][i].place_id : i \in {j \in 1..Len(rleads[r]) : Considered(r, rleads[r][j])}}

\* C29: the poll returns an entry for every lead it considers. A considered
\* lead that is not fresh gets the state unknown when it has no provider
\* message id, email_opened true and the state opened when the provider
\* lists an opened event, the state unopened when it lists none; in each of
\* the three cases email_open_checked_at is set to the time of the poll and
\* the snapshot is saved.
C29_PollOutcomes ==
    [][\A r \in Requests :
          LET i    == rpoll[r].i
              lead == rleads[r][i]
              new  == rleads'[r][i]
              refreshed == /\ new.email_open_checked_at = rpoll[r].now_iso
                           /\ rpoll'[r].changed
          IN
          /\ ((PollLead(r) \/ \E e \in PollEvents : PollQuery(r, e[1], e[2]))
                 /\ Considered(r, lead)) =>
                /\ lead.place_id \in DOMAIN rpoll'[r].updates
                /\ rpoll'[r].updates[lead.place_id].state
                      = IF new.email_opened = "true" THEN "opened"
                        ELSE IF new.email_open_state = "absent" THEN "unopened"
                        ELSE new.email_open_state
          /\ (PollLead(r) /\ Considered(r, lead) /\ ~is_open_status_fresh(lead, now)) =>
                (new.email_open_state = "unknown" /\ refreshed)
          /\ (\E d \in {NoTime, 3} : PollQuery(r, "event", d)) =>
                (new.email_opened = "true" /\ new.email_open_state = "opened" /\ refreshed)
          /\ PollQuery(r, "none", NoTime) =>
                (new.email_open_state = "unopened" /\ refreshed)
          /\ PollSave(r) =>
                /\ DOMAIN resp'.statuses = ConsideredIds(r)
                /\ rpoll[r].changed => store' = rleads[r]]_vars

\* C29 witness: a poll of every Sent lead has answered with an entry for p1,
\* which has no message id and is stored as unknown, and for p2, for which
\* the provider listed an opened event.
C29_Witness ==
    /\ resp.op = "poll"
    /\ DOMAIN resp.statuses = {"p1", "p2"}
    /\ resp.statuses["p1"].state = "unknown"
    /\ resp.statuses["p2"].state = "opened"
    /\ store[1].email_open_state = "unknown"
    /\ store[1].email_open_checked_at = resp.statuses["p1"].checked_at
    /\ store[2].email_opened = "true"
    /\ store[2].email_open_checked_at = resp.statuses["p2"].checked_at

\* C30: when the provider lookup fails (the request raises, or there is no
\* API key) nothing is raised and the lead keeps its email_opened,
\* email_open_state and email_open_checked_at, in the snapshot and so in
\* what the poll saves.
C30_PollFailureKeepsState ==
    [][\A r \in Requests :
          (PollQuery(r, "error", NoTime) \/ PollQuery(r, "no_key", NoTime)) =>
             LET lead == rleads[r][rpoll[r].i]
                 new  == rleads'[r][rpoll[r].i]
             IN /\ new.email_opened = lead.email_opened
                /\ new.email_open_state = lead.email_open_state
                /\ new.email_open_checked_at = lead.email_open_checked_at
                /\ rpoll'[r].changed = rpoll[r].changed]_vars

\* C31: within one pass the selected leads are submitted in the order of the
\* loaded snapshot: when a lead is submitted, the leads still to be handled
\* in the pass are exactly the selected leads after it in the snapshot, in
\* snapshot order, so every selected lead before it was handled earlier.
C31_LoadOrder ==
    [][\A t \in Threads : (\E o \in Outcomes : WSubmit(t, o)) =>
          LET head == Head(wtargets[t])
              rest == Tail(wtargets[t])
          IN /\ \A k \in 1..Len(rest) : head < rest[k]
             /\ \A k \in 1..(Len(rest) - 1) : rest[k] < rest[k + 1]
             /\ {rest[k] : k \in 1..Len(rest)}
                   = {i \in (head + 1)..Len(wleads[t]) : IsTarget(wleads[t][i])}]_vars

\* C31 witness: the third lead of the snapshot has been submitted while
\* the second, selected in the same snapshot and submitted before it without
\* success, is still unsent.
C31_Witness ==
    \E t \in Threads :
       /\ pc[t] = "sent"
       /\ Head(wtargets[t]) = 3
       /\ Eligible(wleads[t][2])
       /\ sends = 2

\* C32: in every state of the store a lead whose status is Sent has sent_at
\* set, after any sequence of bulk queue, worker send and status-update
\* operations.
C32_SentHasSentAt ==
    \A i \in 1..Len(store) : store[i].status = "Sent" => store[i].sent_at # NoTime

\* The lead has the status Sent and no sent_at.
SentUnset(lead) == lead.status = "Sent" /\ lead.sent_at = NoTime

\* No lead of the store, of a worker's snapshot or of a request's snapshot
\* is Sent without sent_at.
NoSentUnset ==
    /\ \A i \in 1..Len(store) : ~SentUnset(store[i])
    /\ \A t \in Threads : \A i \in 1..Len(wleads[t]) : ~SentUnset(wleads[t][i])
    /\ \A r \in Requests : \A i \in 1..Len(rleads[r]) : ~SentUnset(rleads[r][i])

\* C32 (amended): as long as no status update has set a lead to Sent, no
\* lead is Sent without sent_at: every step of bulk queue, worker send and
\* status update other than a status update to Sent keeps it so, in the
\* store and in every loaded snapshot.
C32_SentBySendHasSentAt ==
    [][(~\E r \in Requests, p \in PlaceIds : update_status(r, p, "Sent")) =>
          (NoSentUnset => NoSentUnset')]_vars

\* The worker has sent p1, a status update to a value other than Sent has
\* been saved after it, and no lead is Sent without sent_at.
C32_Witness ==
    /\ resp.op = "status" /\ resp.code = 200
    /\ store[1].status = "Sent"
    /\ store[1].brevo_message_id = ProviderId(1)
    /\ store[1].sent_at # NoTime
    /\ store[2].status = "Drafted"
    /\ NoSentUnset

\* C33: once a delete by place id has succeeded no lead with that place id
\* is in the store again, whatever worker, webhook merge or poll saves a
\* snapshot loaded before the delete; a delete of an absent place id answers
\* 404 and leaves the store as it was.
C33_DeletedStaysDeleted ==
    [][/\ \A p \in PlaceIds : Absent(p) => Absent(p)'
       /\ \A r \in Requests, p \in PlaceIds :
             (delete_lead(r, p) /\ Positions(rleads[r], p) = {}) =>
                (resp'.code = 404 /\ store' = store)]_vars

\* C34: in every state of the store a lead whose email_open_state is opened
\* has email_opened true, after any sequence of webhook merges, polls and
\* worker sends.
C34_OpenedStateMeansOpened ==
    \A i \in 1..Len(store) :
       store[i].email_open_state = "opened" => store[i].email_opened = "true"
====
